---- MODULE Spec2Model ----
(***************************************************************************)
(* Success-stories scraper and Storyblok uploader: run.py (scrape, upload  *)
(* or both), scraper.py (scrape only) and uploader.py (upload one JSON).   *)
(* The model follows the scripts at the granularity of their network       *)
(* calls: every HTTP attempt is one step, everything a script does between *)
(* two network calls belongs to the step that ends the earlier call.       *)
(***************************************************************************)
EXTENDS Integers, Sequences, FiniteSets, TLC

\* ------------------------------------------------------------------
\* Bounds of the model
\* ------------------------------------------------------------------
MaxUrls == 2
MaxRecords == 2
MaxCombinedUrls == 1

\* ------------------------------------------------------------------
\* Program constants
\* ------------------------------------------------------------------
retries == 4
max_retries == 3
BackoffTenths == 12
ErrorStatus == 400
ConflictStatus == 422

CONTENT_PATH == <<"Automation", "success-stories">>

Scripts == {"run", "uploader", "scraper"}

ModesOf(s) ==
    IF s = "run" THEN {"upload_only", "scrape_only", "combined"}
    ELSE IF s = "uploader" THEN {"upload_only"}
    ELSE {"scrape_only"}

\* ------------------------------------------------------------------
\* HTTP responses and exceptions
\* ------------------------------------------------------------------
\* A response body is the set of phrases it contains (lower-cased).
ConflictBody == {"slug", "already taken"}
OtherBody == {"content"}
JsonBody == {"json"}
GarbageBody == {"garbage"}

\* One HTTP attempt ends in an HTTP response or in a transport exception.
\* applied: the CMS has carried the request out (a response may still be lost).
Http(status, body, applied) ==
    [kind |-> "http", status |-> status, body |-> body, applied |-> applied]
Exc(type, applied) ==
    [kind |-> type, status |-> 0, body |-> {}, applied |-> applied]

NetworkErrors == {"Timeout", "ConnectionError"}

NoErr == [type |-> "none", status |-> 0, body |-> {}]
HTTPError(resp) == [type |-> "HTTPError", status |-> resp.status, body |-> resp.body]
OtherError(type) == [type |-> type, status |-> 0, body |-> {}]

\* requests.Response.__bool__ is Response.ok: false for an error status.
ResponseBool(err) == err.status < ErrorStatus

\* ------------------------------------------------------------------
\* StoryblokClient._req
\* ------------------------------------------------------------------
\* what a request carries that the properties look at: the page of a folder
\* listing, the parent_id of a story, the fields of its content, its image,
\* publish=1 among its parameters
\* image_asset None, and the asset id of an asset object without "id"
NoId == 0
NoAsset == [filename |-> <<>>, fieldtype |-> "none", id |-> NoId]

Req(pg, parent, fields) ==
    [page |-> pg, parent_id |-> parent, fields |-> fields, image |-> NoAsset,
     publish |-> FALSE]
NoReq == Req(0, 0, {})

NewCall(op) ==
    [op |-> op, attempt |-> 0, sleeps |-> <<>>, state |-> "running",
     err |-> NoErr, last |-> Exc("none", FALSE), req |-> NoReq]

NoCall ==
    [op |-> "none", attempt |-> 0, sleeps |-> <<>>, state |-> "idle",
     err |-> NoErr, last |-> Exc("none", FALSE), req |-> NoReq]

CallWith(op, req) == [NewCall(op) EXCEPT !.req = req]

\* the attempt returns r.json(): status below 400 and a body that parses
AttemptOk(resp) ==
    /\ resp.kind = "http"
    /\ resp.status < ErrorStatus
    /\ resp.body # GarbageBody

\* the exception an unsuccessful attempt raises inside the try block
AttemptError(resp) ==
    IF resp.kind # "http" THEN OtherError(resp.kind)
    ELSE IF resp.status >= ErrorStatus THEN HTTPError(resp)
    ELSE OtherError("ValueError")

\* a backoff that doubles instead of growing linearly
Backoff_Doubling(attempt) == BackoffTenths * (2 ^ (attempt - 1))

\* time.sleep(1.2 * attempt), in tenths of a second
Backoff(attempt) == BackoffTenths * attempt

\* a retry loop that is one pass too long: range(1, retries + 2)
ReqStep_ExtraAttempt(c, resp) ==
    LET attempt == c.attempt + 1 IN
    IF AttemptOk(resp)
    THEN [c EXCEPT !.attempt = attempt, !.state = "returned", !.last = resp]
    ELSE IF attempt < retries + 1
    THEN [c EXCEPT !.attempt = attempt, !.last = resp, !.err = AttemptError(resp),
                   !.sleeps = Append(c.sleeps, Backoff(attempt))]
    ELSE [c EXCEPT !.attempt = attempt, !.last = resp, !.err = AttemptError(resp),
                   !.state = "raised"]

\* one pass through the body of the retry loop, attempt number c.attempt + 1
ReqStep(c, resp) ==
    LET attempt == c.attempt + 1 IN
    IF AttemptOk(resp)
    THEN [c EXCEPT !.attempt = attempt, !.state = "returned", !.last = resp]
    ELSE IF attempt < retries
    THEN [c EXCEPT !.attempt = attempt, !.last = resp, !.err = AttemptError(resp),
                   !.sleeps = Append(c.sleeps, Backoff(attempt))]
    ELSE [c EXCEPT !.attempt = attempt, !.last = resp, !.err = AttemptError(resp),
                   !.state = "raised"]


\* ------------------------------------------------------------------
\* Strings
\* ------------------------------------------------------------------
\* A string is the sequence of its symbols. A symbol is one character, a run
\* of letters, digits and dots that no function looks into ("https", ".jpg"),
\* or one percent escape ("%20").
Take(s, n) == SubSeq(s, 1, n)
Drop(s, n) == SubSeq(s, n + 1, Len(s))
StartsWith(s, p) == Len(s) >= Len(p) /\ Take(s, Len(p)) = p
EndsWith(s, p) == Len(s) >= Len(p) /\ Drop(s, Len(s) - Len(p)) = p

\* str.find for the symbols cs: the first position, 0 when there is none
Find(s, cs) ==
    LET hits == {k \in 1..Len(s) : s[k] \in cs} IN
    IF hits = {} THEN 0 ELSE CHOOSE k \in hits : \A m \in hits : k <= m

\* Body applied to the value of e, which is computed once
With(e, Body(_)) == CHOOSE r \in {Body(x) : x \in {e}} : TRUE

\* n times the symbol c
Run(c, n) == [k \in 1..n |-> c]

Whitespace == {" ", "nbsp"}

RECURSIVE lstrip(_, _)
lstrip(s, cs) == IF s # <<>> /\ s[1] \in cs THEN lstrip(Tail(s), cs) ELSE s

RECURSIVE rstrip(_, _)
rstrip(s, cs) ==
    IF s # <<>> /\ s[Len(s)] \in cs THEN rstrip(Take(s, Len(s) - 1), cs) ELSE s

\* str.strip(cs)
strip(s, cs) == rstrip(lstrip(s, cs), cs)

\* str.lower()
LowerSym(c) ==
    IF c = "HTTPS" THEN "https"
    ELSE IF c = "LOGO" THEN "logo"
    ELSE IF c = ".JPG" THEN ".jpg"
    ELSE c
lower(s) == [k \in 1..Len(s) |-> LowerSym(s[k])]

\* ------------------------------------------------------------------
\* normalize_url
\* ------------------------------------------------------------------
Letters == {"a", "h", "https", "HTTPS", "logo", "LOGO"}
Dotted == {".jpg", ".JPG", ".txt"}
PercentEscapes == {"%20", "%3A", "%2F", "%3F", "%23", "%C2%A0"}

\* the characters urllib.parse.quote escapes unless they are named safe
Escape ==
    [c \in {" ", ":", "/", "?", "#", "nbsp"} |->
        IF c = " " THEN "%20"
        ELSE IF c = ":" THEN "%3A"
        ELSE IF c = "/" THEN "%2F"
        ELSE IF c = "?" THEN "%3F"
        ELSE IF c = "#" THEN "%23"
        ELSE "%C2%A0"]

\* the escape of an escape: "%" becomes "%25"
Reescape ==
    [c \in PercentEscapes |->
        IF c = "%20" THEN "%2520"
        ELSE IF c = "%3A" THEN "%253A"
        ELSE IF c = "%2F" THEN "%252F"
        ELSE IF c = "%3F" THEN "%253F"
        ELSE IF c = "%23" THEN "%2523"
        ELSE "%25C2%25A0"]

\* urllib.parse.quote(s, safe): letters, digits and "_.-~" are never escaped
quote(s, safe) ==
    [k \in 1..Len(s) |->
        IF s[k] \in DOMAIN Escape /\ s[k] \notin safe THEN Escape[s[k]]
        ELSE IF s[k] \in PercentEscapes /\ "%" \notin safe THEN Reescape[s[k]]
        ELSE s[k]]

\* urllib.parse.urlsplit: <scheme>:<//netloc><path>?<query>#<fragment>
urlsplit(url) ==
    LET u0 == lstrip(url, {" "})
        i == Find(u0, {":"})
        hasScheme == /\ i > 1
                     /\ u0[1] \in Letters
                     /\ \A k \in 1..(i - 1) : u0[k] \in Letters \cup Dotted
        u1 == IF hasScheme THEN Drop(u0, i) ELSE u0
        hasNetloc == StartsWith(u1, <<"/", "/">>)
        delim == Find(Drop(u1, 2), {"/", "?", "#"})
        netloc == IF ~hasNetloc THEN <<>>
                  ELSE IF delim = 0 THEN Drop(u1, 2)
                  ELSE SubSeq(u1, 3, delim + 1)
        u2 == IF ~hasNetloc THEN u1
              ELSE IF delim = 0 THEN <<>>
              ELSE Drop(u1, delim + 1)
        f == Find(u2, {"#"})
        u3 == IF f = 0 THEN u2 ELSE Take(u2, f - 1)
        q == Find(u3, {"?"})
    IN [scheme |-> IF hasScheme THEN lower(Take(u0, i - 1)) ELSE <<>>,
        netloc |-> netloc,
        path |-> IF q = 0 THEN u3 ELSE Take(u3, q - 1),
        query |-> IF q = 0 THEN <<>> ELSE Drop(u3, q),
        fragment |-> IF f = 0 THEN <<>> ELSE Drop(u2, f)]

\* urllib.parse.urljoin(base, url) for a url that starts with a single "/":
\* the scheme and netloc of the base with the path, query and fragment of url
urljoin(base, url) ==
    IF base = <<>> THEN url
    ELSE With(<<urlsplit(base), urlsplit(url)>>, LAMBDA bu :
            LET b == bu[1]
                u == bu[2]
            IN b.scheme \o <<":", "/", "/">> \o b.netloc \o u.path
               \o (IF u.query # <<>> THEN <<"?">> \o u.query ELSE <<>>)
               \o (IF u.fragment # <<>> THEN <<"#">> \o u.fragment ELSE <<>>))

PathSafe == {"/", "%", "(", ")", "_", "-", ".", ",", "~"}
QuerySafe == {"=", "&", "%"}

\* the URL that is split: "https:" before "//", the page base before "/"
Absolute(url, page_base) ==
    IF StartsWith(url, <<"/", "/">>) THEN <<"https", ":">> \o url
    ELSE IF StartsWith(url, <<"/">>) THEN urljoin(page_base, url)
    ELSE url

normalize_url(url, page_base) ==
    IF url = <<>> THEN <<>>
    ELSE With(strip(url, Whitespace), LAMBDA stripped :
         With(urlsplit(Absolute(stripped, page_base)), LAMBDA parts :
            LET path == quote(parts.path, PathSafe)
                query == quote(parts.query, QuerySafe)
            IN parts.scheme \o <<":", "/", "/">> \o parts.netloc \o path
               \o (IF query # <<>> THEN <<"?">> \o query ELSE <<>>)))

\* ------------------------------------------------------------------
\* Parsed documents and the field extractors
\* ------------------------------------------------------------------
\* An element: its tag, one attribute (the property of a meta, the class of
\* a div, src or none for an img), the attribute's value or the element's
\* text, and its child elements. A document is the sequence of its top-level
\* elements.
El(tag, key, value, children) ==
    [tag |-> tag, key |-> key, value |-> value, children |-> children]

H1(text) == El("h1", "", text, <<>>)
Meta(property, content) == El("meta", property, content, <<>>)
TitleTag(text) == El("title", "", text, <<>>)
Img(src) == El("img", "src", src, <<>>)
ImgNoSrc == El("img", "", <<>>, <<>>)
Div(class, children) == El("div", class, <<>>, children)

\* the elements of a document in document order
RECURSIVE Flatten(_)
Flatten(doc) ==
    IF doc = <<>> THEN <<>>
    ELSE <<doc[1]>> \o Flatten(doc[1].children) \o Flatten(Tail(doc))

NoElement == El("none", "", <<>>, <<>>)

\* soup.find(tag, attribute=key): the first such element in document order
find(doc, tag, key) ==
    LET nodes == Flatten(doc)
        hits == {k \in 1..Len(nodes) : nodes[k].tag = tag /\ nodes[k].key = key}
    IN IF hits = {} THEN NoElement
       ELSE nodes[CHOOSE k \in hits : \A m \in hits : k <= m]

\* re.sub(r"\s+", " ", s): every run of whitespace becomes one blank
RECURSIVE Collapse(_)
Collapse(s) ==
    IF Len(s) < 2 THEN s
    ELSE IF s[1] = " " /\ s[2] = " " THEN Collapse(Tail(s))
    ELSE <<s[1]>> \o Collapse(Tail(s))

safe_text(s) ==
    strip(Collapse([k \in 1..Len(s) |-> IF s[k] = "nbsp" THEN " " ELSE s[k]]), {" "})

Untitled == <<"Untitled">>

\* a lookup that prefers the og:title meta to the h1
extract_title_OgFirst(soup) ==
    LET h1 == find(soup, "h1", "")
        og == find(soup, "meta", "og:title")
        tt == find(soup, "title", "")
    IN IF og # NoElement THEN safe_text(og.value)
       ELSE IF h1 # NoElement THEN safe_text(h1.value)
       ELSE IF tt # NoElement THEN safe_text(tt.value)
       ELSE Untitled

\* a Tag is true whatever it contains: an empty h1 is a title source
extract_title(soup) ==
    LET h1 == find(soup, "h1", "")
        og == find(soup, "meta", "og:title")
        tt == find(soup, "title", "")
    IN IF h1 # NoElement THEN safe_text(h1.value)
       ELSE IF og # NoElement THEN safe_text(og.value)
       ELSE IF tt # NoElement THEN safe_text(tt.value)
       ELSE Untitled

\* Optional[str]
None == [some |-> FALSE, str |-> <<>>]
Some(str) == [some |-> TRUE, str |-> str]

skip ==
    {"facebook.com/tr", "google-analytics", "pixel", "doubleclick", "logo", "icon",
     "avatar", "_layouts", "spcommon", "siteassets"}
ImageExtensions == {".png", ".jpg", ".jpeg", ".gif", ".webp"}

\* the element whose images are searched: the first ContentMain div, else
\* the first MainContentZone div, else the document
SearchArea(soup) ==
    LET main == find(soup, "div", "ContentMain")
        zone == find(soup, "div", "MainContentZone")
    IN IF main # NoElement THEN Flatten(main.children)
       ELSE IF zone # NoElement THEN Flatten(zone.children)
       ELSE Flatten(soup)

\* the first element of q that passes, NoElement when there is none
FirstThat(q, Passes(_)) ==
    LET hits == {k \in 1..Len(q) : Passes(q[k])} IN
    IF hits = {} THEN NoElement ELSE q[CHOOSE k \in hits : \A m \in hits : k <= m]

\* a blocklist test on src as written, without lower()
extract_hero_image_CaseSensitive(soup, page_base) ==
    LET Passes(img) ==
            /\ img.tag = "img" /\ img.key = "src"
            /\ img.value # <<>>
            /\ ~ \E k \in 1..Len(img.value) : img.value[k] \in skip
            /\ lower(img.value)[Len(img.value)] \in ImageExtensions
            /\ normalize_url(img.value, page_base) # <<>>
        img == FirstThat(SearchArea(soup), Passes)
    IN IF img = NoElement THEN None ELSE Some(normalize_url(img.value, page_base))

\* the for loop over find_all("img", src=True)
extract_hero_image(soup, page_base) ==
    LET Passes(img) ==
            /\ img.tag = "img" /\ img.key = "src"
            /\ img.value # <<>>
            /\ ~ \E k \in 1..Len(img.value) : lower(img.value)[k] \in skip
            /\ lower(img.value)[Len(img.value)] \in ImageExtensions
            /\ normalize_url(img.value, page_base) # <<>>
        img == FirstThat(SearchArea(soup), Passes)
    IN IF img = NoElement THEN None ELSE Some(normalize_url(img.value, page_base))

P(text, children) == El("p", "", text, children)
Em(text, children) == El("em", "", text, children)

\* class values that hold "content" in some case
ContentClasses == {"ContentMain", "MainContentZone", "page-content", "PageContent"}

Within(el, inP) == [el |-> el, inP |-> inP]

\* soup.find("div", class_=...): the first div in document order whose
\* class is one of classes, and whether it lies inside a p
RECURSIVE FirstDiv(_, _, _)
FirstDiv(nodes, classes, inP) ==
    IF nodes = <<>> THEN Within(NoElement, FALSE)
    ELSE IF nodes[1].tag = "div" /\ nodes[1].key \in classes THEN Within(nodes[1], inP)
    ELSE LET inner == FirstDiv(nodes[1].children, classes, inP \/ nodes[1].tag = "p")
         IN IF inner.el # NoElement THEN inner
            ELSE FirstDiv(Tail(nodes), classes, inP)

\* content_div of extract_body_text: ContentMain, else MainContentZone,
\* else the first div whose class has "content" in it
ContentDiv(soup) ==
    LET main == FirstDiv(soup, {"ContentMain"}, FALSE)
        zone == FirstDiv(soup, {"MainContentZone"}, FALSE)
    IN IF main.el # NoElement THEN main
       ELSE IF zone.el # NoElement THEN zone
       ELSE FirstDiv(soup, ContentClasses, FALSE)

\* the elements extract_body_text searches
BodyArea(soup) ==
    IF ContentDiv(soup).el # NoElement THEN ContentDiv(soup).el.children ELSE soup

\* tag.get_text(): the text of the element and of what it contains
RECURSIVE GetText(_)
RECURSIVE TextOf(_)
GetText(el) == el.value \o TextOf(el.children)
TextOf(nodes) == IF nodes = <<>> THEN <<>> ELSE GetText(nodes[1]) \o TextOf(Tail(nodes))

MinBlockLen == 3

\* the loop over find_all(["p", "em"]): the texts kept, in document order
RECURSIVE Paragraphs(_, _)
Paragraphs(nodes, inP) ==
    IF nodes = <<>> THEN <<>>
    ELSE LET tag == nodes[1]
             text == safe_text(GetText(tag))
             kept == /\ tag.tag \in {"p", "em"}
                     /\ ~(tag.tag = "em" /\ inP)
                     /\ text # <<>> /\ Len(text) >= MinBlockLen
         IN (IF kept THEN <<text>> ELSE <<>>)
            \o Paragraphs(tag.children, inP \/ tag.tag = "p")
            \o Paragraphs(Tail(nodes), inP)

\* "\n\n".join(paragraphs)
RECURSIVE Join(_)
Join(paragraphs) ==
    IF paragraphs = <<>> THEN <<>>
    ELSE IF Len(paragraphs) = 1 THEN paragraphs[1]
    ELSE paragraphs[1] \o <<"\n", "\n">> \o Join(Tail(paragraphs))

extract_body_text(soup) ==
    Join(Paragraphs(BodyArea(soup),
                    ContentDiv(soup).el # NoElement /\ ContentDiv(soup).inP))

\* the elements each extractor searches, in document order
content_containers(soup) ==
    [hero |-> SearchArea(soup), body |-> Flatten(BodyArea(soup))]

\* the SuccessStory fields the properties look at
parse_story_html(soup, page_base) ==
    [title |-> extract_title(soup),
     hero_image |-> extract_hero_image(soup, page_base)]

\* ------------------------------------------------------------------
\* read_links_file and sanitize_filename
\* ------------------------------------------------------------------
\* the list without the later occurrences of its elements
RECURSIVE FirstSeen(_, _)
FirstSeen(q, seen) ==
    IF q = <<>> THEN <<>>
    ELSE IF q[1] \in seen THEN FirstSeen(Tail(q), seen)
    ELSE <<q[1]>> \o FirstSeen(Tail(q), seen \cup {q[1]})

\* the list without the earlier occurrences of its elements
RECURSIVE LastSeen(_, _)
LastSeen(q, seen) ==
    IF q = <<>> THEN <<>>
    ELSE IF q[Len(q)] \in seen THEN LastSeen(Take(q, Len(q) - 1), seen)
    ELSE LastSeen(Take(q, Len(q) - 1), seen \cup {q[Len(q)]}) \o <<q[Len(q)]>>

Returned(value) == [raised |-> "none", value |-> value]
Raised(type) == [raised |-> type, value |-> <<>>]

\* a links file: it exists or not, and the lines splitlines() gives
LinksFile(exists, lines) == [exists |-> exists, lines |-> lines]

\* a de-duplication that keeps the last occurrence of a URL
read_links_file_KeepLast(file) ==
    IF ~file.exists THEN Raised("FileNotFoundError")
    ELSE LET lines == [k \in 1..Len(file.lines) |-> strip(file.lines[k], Whitespace)]
             urls == SelectSeq(lines, LAMBDA line : line # <<>> /\ line[1] # "#")
         IN Returned(LastSeen(urls, {}))

read_links_file(file) ==
    IF ~file.exists THEN Raised("FileNotFoundError")
    ELSE LET lines == [k \in 1..Len(file.lines) |-> strip(file.lines[k], Whitespace)]
             urls == SelectSeq(lines, LAMBDA line : line # <<>> /\ line[1] # "#")
         IN Returned(FirstSeen(urls, {}))

NameCap == 200
Forbidden == {"<", ">", ":", "\"", "/", "\\", "|", "?", "*"}

\* a sanitizer without the cap on the length
sanitize_filename_Uncapped(filename) ==
    LET kept == SelectSeq(filename, LAMBDA c : c \notin Forbidden)
        under == [k \in 1..Len(kept) |-> IF kept[k] = " " THEN "_" ELSE kept[k]]
        name == strip(under, {".", " "})
    IN IF name # <<>> THEN name ELSE <<"story">>

sanitize_filename(filename) ==
    LET kept == SelectSeq(filename, LAMBDA c : c \notin Forbidden)
        under == [k \in 1..Len(kept) |-> IF kept[k] = " " THEN "_" ELSE kept[k]]
        name == strip(under, {".", " "})
    IN IF name # <<>>
       THEN (IF Len(name) > NameCap THEN Take(name, NameCap) ELSE name)
       ELSE <<"story">>

\* ------------------------------------------------------------------
\* download_image: the extension of the file
\* ------------------------------------------------------------------
\* e in text, for a text of symbols
Contains(text, e) == \E k \in 1..Len(text) : text[k] = e

\* the extensions looked for in the URL, in the order of the list
UrlExtensions == <<".png", ".jpg", ".jpeg", ".gif", ".webp">>

\* the for loop over the list: the first entry the lowered URL contains
ExtInUrl(image_url, default) ==
    LET hits == {k \in 1..Len(UrlExtensions) : Contains(lower(image_url), UrlExtensions[k])}
    IN IF hits = {} THEN default
       ELSE UrlExtensions[CHOOSE k \in hits : \A m \in hits : k <= m]

\* ext of download_image: run.py scans the URL whatever the Content-Type,
\* scraper.py only when the Content-Type has none of png, webp and gif
image_ext(s, ct, image_url) ==
    LET typed == IF Contains(ct, "png") THEN ".png"
                 ELSE IF Contains(ct, "webp") THEN ".webp"
                 ELSE IF Contains(ct, "gif") THEN ".gif"
                 ELSE ".jpg"
    IN IF s = "run" THEN ExtInUrl(image_url, typed)
       ELSE IF typed # ".jpg" THEN typed
       ELSE ExtInUrl(image_url, ".jpg")

\* ------------------------------------------------------------------
\* The description field of a story
\* ------------------------------------------------------------------
\* what str.strip() removes: blanks, non-breaking spaces and line ends
StripSet == Whitespace \cup {"\n"}
BlankLine == <<"\n", "\n">>

\* a join that puts the separator in whether or not there is a description
final_desc_AlwaysJoin(s, description, body_text) ==
    LET desc == strip(description, StripSet)
        body == strip(body_text, StripSet)
    IN IF body # <<>> THEN desc \o BlankLine \o body ELSE desc

\* final_desc of run_upload, final_description of uploader.py main
final_desc(s, description, body_text) ==
    LET desc == strip(description, StripSet)
        body == strip(body_text, StripSet)
    IN IF s = "run"
       THEN IF body # <<>> THEN strip(desc \o BlankLine \o body, StripSet) ELSE desc
       ELSE IF body = <<>> THEN desc
       ELSE IF desc # <<>> THEN desc \o BlankLine \o body
       ELSE body

\* ------------------------------------------------------------------
\* State
\* ------------------------------------------------------------------
VARIABLES
    script,        \* which script runs: run.py, uploader.py or scraper.py
    mode,          \* run.py: --upload-only, --scrape-only or scrape then upload
    creds,         \* STORYBLOK_TOKEN and STORYBLOK_SPACE_ID are both set
    path_parts,    \* the folder path handed to ensure_content_folder_by_path
    cmsTotal,      \* how the space reports "total" in a folder listing
    assetIds,      \* the answers of POST /assets carry the id of the asset
    publish,       \* --publish was given
    pc,            \* position of the script
    urls,          \* the de-duplicated URL list
    uidx,          \* index of the URL the fetch loop is at
    visited,       \* URLs handed to fetch_html, in order, with what the loop did
    summary,       \* the summary dict of the fetch loop
    summaryWrites, \* number of times summary.json has been written
    jsonFiles,     \* JSON records written to the output folder, in order
    disk,          \* files that exist under the run folder
    json_paths,    \* json_paths: the records the upload loop iterates
    idx,           \* index of the record the upload loop is at
    outcome,       \* terminal outcome of every record processed so far
    call,          \* the _req call in flight, or the last one finished
    imgTry,        \* attempt number of upload_image_to_storyblok
    last_err,      \* last_err of upload_image_to_storyblok, until the story is posted
    image_asset,   \* image_asset of the current record
    cand,          \* index of the slug candidate being tried
    taken,         \* slug candidates of the current record the CMS holds
    taken0,        \* value of taken when create_storyblok_story started
    hist,          \* finished create_story calls of the current record
    clean,         \* no transient failure during this record's creation
    cmsFolders,    \* folders of the space, in listing order
    folders,       \* list_folders' out, then ensure_content_folder_by_path's folders
    page,          \* list_folders' page
    resolutions,   \* number of calls of ensure_content_folder_by_path
    pathIdx,       \* position in CONTENT_PATH of the folder being created
    parent_id,     \* parent_id / content_parent_id
    given,         \* a helper function and the argument it is called with
    results        \* what the calls of the helper returned, in order

scrapeVars == <<urls, uidx, visited, summary, summaryWrites, jsonFiles, disk>>
loopVars == <<idx, outcome>>
recVars == <<pc, call, imgTry, last_err, image_asset, cand, taken, taken0, hist, clean>>
storyVars == <<cand, taken, taken0, hist, clean>>
folderVars == <<cmsFolders, folders, page, resolutions, pathIdx, parent_id>>
helperVars == <<given, results>>
envVars == <<script, mode, creds, path_parts, cmsTotal, assetIds, publish, helperVars>>

vars == <<script, mode, creds, path_parts, cmsTotal, assetIds, publish, pc, urls, uidx, visited, summary, summaryWrites,
          jsonFiles, disk, json_paths, idx, outcome, call, imgTry, last_err, image_asset, cand, taken,
          taken0, hist, clean, cmsFolders, folders, page, resolutions, pathIdx,
          parent_id, given, results>>

\* ------------------------------------------------------------------
\* Inputs
\* ------------------------------------------------------------------
\* A JSON file handed to the uploader: unreadable, or a record whose title
\* is empty, whitespace or text, and whose hero_image is null, a path that resolves to
\* an existing local file, or a value that names no local file (remote URL).
Unreadable == [readable |-> FALSE, title |-> "", hero |-> "none"]
Rec(t, h) == [readable |-> TRUE, title |-> t, hero |-> h]
RecordKinds ==
    {Unreadable, Rec("", "none"), Rec(" ", "local"),
     Rec("t", "none"), Rec("t", "local"), Rec("t", "remote")}

\* a title that is tested without being stripped
Strip_Unstripped(title) == title

\* (data.get("title") or "").strip(): a missing title reads as ""
Strip(title) == IF title = " " THEN "" ELSE title

RECURSIVE SeqsUpTo(_, _)
SeqsUpTo(S, n) ==
    IF n = 0 THEN {<<>>}
    ELSE LET shorter == SeqsUpTo(S, n - 1) IN
         shorter \cup {Append(q, x) : q \in {r \in shorter : Len(r) = n - 1}, x \in S}

\* folders a space may hold before the run
Folder(id, name, parent) ==
    [id |-> id, name |-> name, parent_id |-> parent, is_folder |-> TRUE]
FolderConfigs ==
    { <<>>,
      <<Folder(10, "Automation", 0)>>,
      <<Folder(10, "Automation", 0), Folder(11, "success-stories", 10)>>,
      <<Folder(11, "success-stories", 0)>> }

\* larger spaces: n folders that no path names, listed before the others
Fillers(n) == [k \in 1..n |-> Folder(1000 + k, "other", 0)]

\* spaces with folders of the right name under another parent, and spaces
\* whose listing takes one, two or three pages
FolderSpaces ==
    FolderConfigs \cup
    { <<Folder(5, "other", 0), Folder(12, "Automation", 5)>>,
      <<Folder(5, "other", 0), Folder(12, "Automation", 5), Folder(10, "Automation", 0),
        Folder(13, "success-stories", 12), Folder(11, "success-stories", 10)>>,
      Fillers(99) \o <<Folder(10, "Automation", 0)>>,
      Fillers(100),
      Fillers(120) \o <<Folder(10, "Automation", 0), Folder(11, "success-stories", 10)>>,
      Fillers(200) \o <<Folder(10, "Automation", 0)>> }

\* values of CONTENT_PATH: the space root, one level, the shipped path
PathConfigs == {<<>>, <<"Automation">>, CONTENT_PATH}

\* the body of a listing reports the total, an outdated total, or none
TotalConfigs == {"honest", "stale", "absent"}

\* slug candidates of a record that already exist in the space
TakenSets == {{}, {1}, {1, 2}, {1, 2, 3}}

EmptySummary(n) == [total |-> n, success |-> 0, failed |-> 0, errors |-> <<>>]

\* files the run folder may hold when the run starts (mkdir(exist_ok=True))
DiskConfigs ==
    { {},
      {[dir |-> <<"root", "output">>, stem |-> <<"t", "1">>, ext |-> "json"]} }

\* ------------------------------------------------------------------
\* The CMS as seen through one HTTP attempt
\* ------------------------------------------------------------------
Transient ==
    { Http(500, OtherBody, FALSE), Http(ConflictStatus, OtherBody, FALSE),
      Exc("Timeout", FALSE), Exc("ConnectionError", FALSE) }

\* POST /stories for slug candidate c: the slug is taken (422 naming the
\* slug) or the story is created; the answer to a creation can be lost or
\* unreadable; any attempt can fail for a transient reason.
StoryResponses(c, tk) ==
    IF c \in tk
    THEN {Http(ConflictStatus, ConflictBody, FALSE)} \cup Transient
    ELSE {Http(200, JsonBody, TRUE), Http(200, GarbageBody, TRUE), Exc("Timeout", TRUE)}
         \cup Transient

\* the CMS's own answer, delivered intact
Definitive(resp) ==
    resp \in {Http(ConflictStatus, ConflictBody, FALSE), Http(200, JsonBody, TRUE)}

\* GET /stories?folder_only=1: the page arrives, or the attempt fails
PlainResponses ==
    {Http(200, JsonBody, TRUE), Http(500, OtherBody, FALSE), Exc("Timeout", FALSE)}

\* POST /assets: the signed upload descriptor names the fields it carries
FullDescriptor == {"post_url", "fields", "key"}
NoKeyDescriptor == {"post_url", "fields"}
NoFieldsDescriptor == {"post_url"}
SignedResponses ==
    { Http(200, FullDescriptor \cup (IF assetIds THEN {"id"} ELSE {}), TRUE),
      Http(200, NoKeyDescriptor, TRUE),
      Http(200, NoFieldsDescriptor, TRUE), Http(500, OtherBody, FALSE),
      Exc("Timeout", FALSE), Exc("ConnectionError", FALSE) }

\* the raw multipart POST to the signed URL
TransferOutcomes == {"ok", "HTTPError", "Timeout", "ConnectionError", "SSLError"}

\* ------------------------------------------------------------------
\* create_storyblok_story
\* ------------------------------------------------------------------
\* the candidate list with its two suffixed slugs swapped
slug_candidates_Swapped == <<"bare", "timestamp", "random4">>

\* [base_slug, base_slug-<4 random digits>, base_slug-<unix time>]
slug_candidates == <<"bare", "random4", "timestamp">>
SlugCandidates == Len(slug_candidates)

MentionsConflict(body) == "already taken" \in body \/ "slug" \in body

\* the except HTTPError branch: is the next candidate tried?
SlugConflict(s, err) ==
    /\ err.type = "HTTPError"
    /\ IF s = "run" THEN ResponseBool(err) ELSE TRUE
    /\ err.status = ConflictStatus
    /\ MentionsConflict(err.body)

\* content: the image field is set only when there is an image asset
ContentFields(img) ==
    {"component", "title", "description"} \cup (IF img # NoAsset THEN {"image"} ELSE {})

\* content with the image field whether or not there is an asset
StoryReq_AlwaysImage(img, parent) ==
    Req(0, parent, {"component", "title", "description", "image"})

\* a story sent to the root of the space, whatever folder was resolved
StoryReq_RootParent(img, parent) ==
    [Req(0, 0, ContentFields(img)) EXCEPT !.image = img, !.publish = publish]

\* a story that is published whether or not --publish was given
StoryReq_AlwaysPublish(img, parent) ==
    [Req(0, parent, ContentFields(img)) EXCEPT !.image = img, !.publish = TRUE]

\* client.create_story(title, slug, content, parent_id=parent_id,
\* publish=publish)
StoryReq(img, parent) ==
    [Req(0, parent, ContentFields(img)) EXCEPT !.image = img, !.publish = publish]

Created(c) == [res |-> "created", slug |-> slug_candidates[c]]
Failed == [res |-> "failed", slug |-> "none"]
Skipped == [res |-> "skipped", slug |-> "none"]

\* the outcome res noted for record i
Outcome(i, res) == [rec |-> i, res |-> res.res, slug |-> res.slug]

HistEntry(c, cl) ==
    [slug |-> slug_candidates[c], state |-> cl.state, err |-> cl.err,
     attempts |-> cl.attempt]

ResetStory ==
    /\ cand' = 0 /\ taken' = {} /\ taken0' = {} /\ hist' = <<>> /\ clean' = TRUE

\* create_storyblok_story up to its first request
EnterStory(img, tries, err) ==
    /\ pc' = "story"
    /\ call' = CallWith("create_story", StoryReq(img, parent_id'))
    /\ image_asset' = img
    /\ imgTry' = tries
    /\ last_err' = err
    /\ cand' = 1
    /\ hist' = <<>>
    /\ clean' = TRUE
    /\ \E t \in TakenSets : taken' = t /\ taken0' = t

\* upload_image_to_storyblok up to its first request
EnterUpload(hero) ==
    IF hero = "local"
    THEN /\ pc' = "signed"
         /\ call' = NewCall("create_signed_asset")
         /\ imgTry' = 1
         /\ last_err' = "none"
         /\ image_asset' = NoAsset
         /\ ResetStory
    ELSE EnterStory(NoAsset, 0, "none")

\* run_upload giving up at the first failed record, as uploader.py does
AfterRecord_ExitOnFailure(res) ==
    IF res.res = "failed" THEN "exit1"
    ELSE IF script = "uploader" THEN "done"
    ELSE IF idx >= Len(json_paths) THEN "done" ELSE "load"

\* where the script goes once a record has its outcome
AfterRecord(res) ==
    IF script = "uploader"
    THEN IF res.res = "created" THEN "done" ELSE "exit1"
    ELSE IF idx >= Len(json_paths) THEN "done" ELSE "load"

\* a loop that starts a failed record over instead of moving on
EndRecord_RetryFailed(res) ==
    IF res.res = "failed" /\ script = "run"
    THEN /\ outcome' = outcome
         /\ idx' = idx
         /\ pc' = "load"
    ELSE /\ outcome' = Append(outcome, Outcome(idx, res))
         /\ idx' = idx + 1
         /\ pc' = AfterRecord(res)

EndRecord(res) ==
    /\ outcome' = Append(outcome, Outcome(idx, res))
    /\ idx' = idx + 1
    /\ pc' = AfterRecord(res)

\* one HTTP attempt of client.create_story and what follows it
StoryAttempt ==
    /\ pc = "story"
    /\ call.state = "running"
    /\ \E resp \in StoryResponses(cand, taken) :
         LET c2 == ReqStep(call, resp)
             h2 == Append(hist, HistEntry(cand, c2))
         IN /\ taken' = IF resp.applied THEN taken \cup {cand} ELSE taken
            /\ clean' = (clean /\ Definitive(resp))
            /\ call' = IF /\ c2.state = "raised"
                          /\ SlugConflict(script, c2.err)
                          /\ cand < SlugCandidates
                       THEN CallWith("create_story", StoryReq(image_asset, parent_id))
                       ELSE c2
            /\ IF c2.state = "running"
               THEN UNCHANGED <<pc, cand, hist, idx, outcome>>
               ELSE IF c2.state = "returned"
               THEN /\ EndRecord(Created(cand))
                    /\ hist' = h2
                    /\ UNCHANGED cand
               ELSE IF SlugConflict(script, c2.err) /\ cand < SlugCandidates
               THEN /\ cand' = cand + 1
                    /\ hist' = h2
                    /\ UNCHANGED <<pc, idx, outcome>>
               ELSE /\ EndRecord(Failed)
                    /\ hist' = h2
                    /\ UNCHANGED cand
    /\ last_err' = "none"
    /\ UNCHANGED <<imgTry, image_asset, taken0, json_paths>>
    /\ UNCHANGED <<envVars, scrapeVars, folderVars>>

\* ------------------------------------------------------------------
\* upload_image_to_storyblok
\* ------------------------------------------------------------------
\* an upload loop that tries again whatever went wrong
Retriable_AnyError(type) == TRUE

\* except (SSLError, Timeout, ConnectionError)
Retriable(type) == type \in NetworkErrors \cup {"SSLError"}

\* an upload loop that tries once more than max_retries
UploadFailed_ExtraTry(type) ==
    IF Retriable(type) /\ imgTry <= max_retries
    THEN /\ pc' = "signed"
         /\ call' = NewCall("create_signed_asset")
         /\ imgTry' = imgTry + 1
         /\ last_err' = type
         /\ image_asset' = NoAsset
         /\ ResetStory
    ELSE EnterStory(NoAsset, imgTry, type)

\* the except branches of the upload loop: try again or give up
UploadFailed(type) ==
    IF Retriable(type) /\ imgTry < max_retries
    THEN /\ pc' = "signed"
         /\ call' = NewCall("create_signed_asset")
         /\ imgTry' = imgTry + 1
         /\ last_err' = type
         /\ image_asset' = NoAsset
         /\ ResetStory
    ELSE EnterStory(NoAsset, imgTry, type)

\* one HTTP attempt of client.create_signed_asset and what follows it
SignedAttempt ==
    /\ pc = "signed"
    /\ call.state = "running"
    /\ UNCHANGED <<loopVars, json_paths, envVars, scrapeVars, folderVars>>
    /\ \E resp \in SignedResponses :
         LET c2 == ReqStep(call, resp) IN
         IF c2.state = "running"
         THEN /\ call' = c2
              /\ UNCHANGED <<pc, imgTry, last_err, image_asset, storyVars>>
         ELSE IF c2.state = "raised"
         THEN UploadFailed(c2.err.type)
         ELSE IF ~ ({"post_url", "fields"} \subseteq resp.body)
         THEN UploadFailed("RuntimeError")
         ELSE /\ pc' = "transfer"
              /\ call' = c2
              /\ UNCHANGED <<imgTry, last_err, image_asset, storyVars>>

\* an asset object that never carries the id
asset_obj_NoId(signed) ==
    [filename |-> <<"https://a.storyblok.com/", "key">>, fieldtype |-> "asset",
     id |-> NoId]

\* asset_obj: the public URL of the descriptor's key, and the id of the
\* asset when the answer of POST /assets has one
AssetId == 7
asset_obj(signed) ==
    [filename |-> <<"https://a.storyblok.com/", "key">>, fieldtype |-> "asset",
     id |-> IF "id" \in signed THEN AssetId ELSE NoId]

\* client.upload_asset_from_bytes and the rest of the try block
Transfer ==
    /\ pc = "transfer"
    /\ UNCHANGED <<loopVars, json_paths, envVars, scrapeVars, folderVars>>
    /\ \E out \in TransferOutcomes :
         IF out # "ok"
         THEN UploadFailed(out)
         ELSE IF "key" \notin call.last.body
         THEN UploadFailed("RuntimeError")
         ELSE EnterStory(asset_obj(call.last.body), imgTry, "none")

\* ------------------------------------------------------------------
\* list_folders and ensure_content_folder_by_path
\* ------------------------------------------------------------------
PerPage == 100
FreshFolderId == 20

\* the stories of page p of the listing, per_page = 100
PageItems(fs, p) ==
    LET first == (p - 1) * PerPage + 1
        last == IF p * PerPage < Len(fs) THEN p * PerPage ELSE Len(fs)
    IN IF first > last THEN <<>> ELSE SubSeq(fs, first, last)

\* int(data.get("total") or 0): the body reports the number of folders, an
\* older and larger number, or no total at all
ReportedTotal(fs, t) ==
    IF t = "honest" THEN Len(fs)
    ELSE IF t = "stale" THEN Len(fs) + PerPage
    ELSE 0

Matches(f, name, parent) ==
    f.is_folder /\ f.name = name /\ f.parent_id = parent

\* a lookup by name alone, whatever the parent of the listed folder
FoundAt_NameOnly(fs, name, parent) ==
    LET hits == {k \in 1..Len(fs) : fs[k].is_folder /\ fs[k].name = name} IN
    IF hits = {} THEN 0 ELSE CHOOSE k \in hits : \A m \in hits : k <= m

\* next(...): the first listed folder with this name under this parent
FoundAt(fs, name, parent) ==
    LET hits == {k \in 1..Len(fs) : Matches(fs[k], name, parent)} IN
    IF hits = {} THEN 0 ELSE CHOOSE k \in hits : \A m \in hits : k <= m

\* the for loop over path_parts from position i, up to the first missing folder
RECURSIVE Walk(_, _, _)
Walk(fs, i, parent) ==
    IF i > Len(path_parts) THEN [i |-> i, parent |-> parent]
    ELSE LET k == FoundAt(fs, path_parts[i], parent) IN
         IF k = 0 THEN [i |-> i, parent |-> parent]
         ELSE Walk(fs, i + 1, fs[k].id)

\* the script once content_parent_id is known
AfterFolders ==
    IF script = "uploader"
    THEN /\ EnterUpload(json_paths[1].hero)
         /\ UNCHANGED loopVars
    ELSE /\ pc' = "load"
         /\ call' = NoCall
         /\ UNCHANGED <<imgTry, last_err, image_asset, storyVars, loopVars>>

\* continue the walk with the folder list fs; create the first missing folder
ContinueWalk(fs, i, parent) ==
    LET w == Walk(fs, i, parent) IN
    /\ parent_id' = w.parent
    /\ folders' = fs
    /\ IF w.i > Len(path_parts)
       THEN /\ pathIdx' = 0
            /\ AfterFolders
       ELSE /\ pathIdx' = w.i
            /\ pc' = "create_folder"
            /\ call' = NewCall("create_folder")
            /\ UNCHANGED <<imgTry, last_err, image_asset, storyVars, loopVars>>

Crash(c2) ==
    /\ pc' = "crashed"
    /\ call' = c2
    /\ UNCHANGED <<imgTry, last_err, image_asset, storyVars, loopVars>>

\* one HTTP attempt of list_folders and, when it returns, the rest of the
\* loop body: extend out, then leave the loop or ask for the next page
ListFoldersAttempt ==
    /\ pc = "list_folders"
    /\ call.state = "running"
    /\ \E resp \in PlainResponses :
         LET c2 == ReqStep(call, resp)
             items == PageItems(cmsFolders, page)
             total == ReportedTotal(cmsFolders, cmsTotal)
             out == folders \o items
         IN IF c2.state = "running"
            THEN /\ call' = c2
                 /\ UNCHANGED <<pc, imgTry, last_err, image_asset, storyVars, loopVars,
                                folders, page, pathIdx, parent_id>>
            ELSE IF c2.state = "raised"
            THEN /\ Crash(c2)
                 /\ UNCHANGED <<folders, page, pathIdx, parent_id>>
            ELSE IF page * PerPage >= total \/ items = <<>>
            THEN /\ page' = page
                 /\ ContinueWalk(out, 1, 0)
            ELSE /\ page' = page + 1
                 /\ folders' = out
                 /\ call' = CallWith("list_folders", Req(page + 1, 0, {}))
                 /\ UNCHANGED <<pc, imgTry, last_err, image_asset, storyVars, loopVars,
                                pathIdx, parent_id>>
    /\ UNCHANGED <<cmsFolders, resolutions, json_paths, envVars, scrapeVars>>

\* POST /stories for a folder: the slug is unique under its parent, so the
\* POST is refused when the space holds such a folder; the answer to a
\* creation can be lost
FolderResponses(exists) ==
    IF exists
    THEN {Http(ConflictStatus, ConflictBody, FALSE), Http(500, OtherBody, FALSE),
          Exc("Timeout", FALSE)}
    ELSE {Http(200, JsonBody, TRUE), Http(500, OtherBody, FALSE),
          Exc("Timeout", FALSE), Exc("Timeout", TRUE)}

\* one HTTP attempt of the folder-creating POST
CreateFolderAttempt ==
    /\ pc = "create_folder"
    /\ call.state = "running"
    /\ LET name == path_parts[pathIdx]
           exists == \E k \in 1..Len(cmsFolders) : Matches(cmsFolders[k], name, parent_id)
           folder == Folder(FreshFolderId + pathIdx, name, parent_id)
       IN \E resp \in FolderResponses(exists) :
            LET c2 == ReqStep(call, resp) IN
            /\ cmsFolders' = IF resp.applied THEN Append(cmsFolders, folder)
                             ELSE cmsFolders
            /\ IF c2.state = "running"
               THEN /\ call' = c2
                    /\ UNCHANGED <<pc, imgTry, last_err, image_asset, storyVars, loopVars,
                                   folders, pathIdx, parent_id>>
               ELSE IF c2.state = "raised"
               THEN /\ Crash(c2)
                    /\ UNCHANGED <<folders, pathIdx, parent_id>>
               ELSE ContinueWalk(Append(folders, folder), pathIdx + 1, folder.id)
    /\ UNCHANGED <<page, resolutions, json_paths, envVars, scrapeVars>>

\* ------------------------------------------------------------------
\* run_upload and uploader.py main
\* ------------------------------------------------------------------
\* ensure_content_folder_by_path up to its first request
FirstListing ==
    /\ pc' = "list_folders"
    /\ call' = CallWith("list_folders", Req(1, 0, {}))
    /\ page' = 1
    /\ folders' = <<>>

\* run_upload from its first line to its first request
EnterRunUpload ==
    IF ~creds
    THEN /\ pc' = "exit1"
         /\ call' = NoCall
         /\ UNCHANGED <<folders, page, resolutions>>
    ELSE /\ resolutions' = resolutions + 1
         /\ IF path_parts = <<>>
            THEN /\ pc' = "load"
                 /\ call' = NoCall
                 /\ UNCHANGED <<folders, page>>
            ELSE FirstListing

\* run.py main with --upload-only
RunMainUpload ==
    /\ pc = "main"
    /\ script = "run"
    /\ mode = "upload_only"
    /\ IF json_paths = <<>>
       THEN pc' = "exit1" /\ call' = NoCall /\ UNCHANGED <<folders, page, resolutions>>
       ELSE EnterRunUpload
    /\ UNCHANGED <<imgTry, last_err, image_asset, storyVars, loopVars, json_paths>>
    /\ UNCHANGED <<envVars, scrapeVars, cmsFolders, pathIdx, parent_id>>

\* uploader.py main from its first line to its first request
UploaderMain ==
    /\ pc = "main"
    /\ script = "uploader"
    /\ UNCHANGED <<cmsFolders, pathIdx, parent_id>>
    /\ IF ~creds \/ ~json_paths[1].readable \/ Strip(json_paths[1].title) = ""
       THEN /\ pc' = "exit1"
            /\ call' = NoCall
            /\ UNCHANGED <<folders, page, resolutions, imgTry, last_err, image_asset, storyVars>>
       ELSE /\ resolutions' = resolutions + 1
            /\ IF path_parts = <<>>
               THEN /\ EnterUpload(json_paths[1].hero)
                    /\ UNCHANGED <<folders, page>>
               ELSE /\ FirstListing
                    /\ UNCHANGED <<imgTry, last_err, image_asset, storyVars>>
    /\ UNCHANGED <<loopVars, json_paths, envVars, scrapeVars>>

\* the head of run_upload's for loop, up to the record's first request
LoadRecord ==
    /\ pc = "load"
    /\ idx <= Len(json_paths)
    /\ UNCHANGED <<json_paths, envVars, scrapeVars, folderVars>>
    /\ LET rec == json_paths[idx] IN
       IF ~rec.readable \/ Strip(rec.title) = ""
       THEN /\ EndRecord(Skipped)
            /\ call' = NoCall
            /\ imgTry' = 0
            /\ last_err' = "none"
            /\ image_asset' = NoAsset
            /\ ResetStory
       ELSE /\ EnterUpload(rec.hero)
            /\ UNCHANGED loopVars

\* ------------------------------------------------------------------
\* The fetch loop: run_scrape and scraper.py main
\* ------------------------------------------------------------------
\* what fetch_html can raise, by except branch
FetchFailures ==
    { [type |-> "HTTPError", status |-> 404],
      [type |-> "HTTPError", status |-> 401],
      [type |-> "Timeout", status |-> 0],
      [type |-> "InvalidURL", status |-> 0] }

NoCode == 0

\* the entry appended to summary["errors"]
ErrorEntry(s, url, f) ==
    IF f.type = "HTTPError"
    THEN [url |-> url, type |-> "HTTPError",
          code |-> IF s = "run"
                   THEN (IF ResponseBool(f) THEN f.status ELSE NoCode)
                   ELSE f.status,
          msg |-> FALSE,
          reason |-> (s = "scraper" /\ f.status = 401)]
    ELSE IF f.type \in {"Timeout", "ConnectionError", "SSLError"}
    THEN [url |-> url, type |-> f.type, code |-> NoCode, msg |-> FALSE, reason |-> FALSE]
    ELSE [url |-> url, type |-> f.type, code |-> NoCode, msg |-> TRUE, reason |-> FALSE]

\* what parse_story_html finds on a fetched page: the title is empty, a
\* plain title, or a title that ends in _1; a hero image URL is found or not
Pages == [title : {"", "t", "t_1"}, hero : {"none", "url"}]

\* A file name stem is the sequence of the parts that "_" joins.
\* sanitize_filename: an empty title becomes "story"
safe_title(title) ==
    IF title = "" THEN <<"story">>
    ELSE IF title = "t_1" THEN <<"t", "1">>
    ELSE <<title>>

\* paths.root, paths.output and images_folder (setup_run_dirs, run_scrape)
RunRoot == <<"root">>
OutputDir == <<"root", "output">>
ImagesDir == <<"root", "output", "images">>

File(dir, stem, ext) == [dir |-> dir, stem |-> stem, ext |-> ext]
NoFile == File(<<>>, <<>>, "")

\* f"{base}_{c}": the decimal text of the counter is joined with "_"
CounterText == <<"1", "2", "3", "4", "5", "6", "7", "8", "9">>
Suffixed(stem, c) == IF c = 0 THEN stem ELSE Append(stem, CounterText[c])

\* a counter that skips the exists() test and counts the stories of the title
FirstFree_CountSameTitle(files, dir, stem, ext) ==
    Cardinality({f \in files : f.dir = dir /\ f.ext = ext /\ f.stem = stem})

\* the while ...exists() loops: the first free counter, 0 for the bare name
FirstFree(files, dir, stem, ext) ==
    LET n == Cardinality({f \in files : f.dir = dir /\ f.ext = ext})
        free == {c \in 0..n : File(dir, Suffixed(stem, c), ext) \notin files}
    IN CHOOSE c \in free : \A d \in free : c <= d

\* Path.relative_to(dir) and dir / path
RelativeTo(f, dir) == [f EXCEPT !.dir = SubSeq(f.dir, Len(dir) + 1, Len(f.dir))]
Resolve(dir, f) == [f EXCEPT !.dir = dir \o f.dir]
Parent(dir) == SubSeq(dir, 1, Len(dir) - 1)

\* requests.get of the hero image: any exception, or the extension of the file
DownloadOutcomes == {"failed", "jpg", "png"}

\* download_image: the file written (NoFile when nothing was written)
ImageFile(files, story, dl) ==
    IF story.hero = "none" \/ dl = "failed" THEN NoFile
    ELSE LET stem == safe_title(story.title) IN
         File(ImagesDir, Suffixed(stem, FirstFree(files, ImagesDir, stem, dl)), dl)

\* download_image's return value, in a hero_image field
NoHero == [kind |-> "none", path |-> NoFile]
RemoteHero == [kind |-> "remote", path |-> NoFile]
LocalHero(img) == [kind |-> "local", path |-> RelativeTo(img, Parent(Parent(ImagesDir)))]

\* out_file: the first free JSON name in paths.output
OutFile(files, story) ==
    LET stem == safe_title(story.title) IN
    File(OutputDir, Suffixed(stem, FirstFree(files, OutputDir, stem, "json")), "json")

\* a record that drops the hero image when its download failed
JsonRecord_NullWhenDownloadFails(url, story, img, out_file) ==
    [url |-> url,
     file |-> out_file,
     title |-> story.title,
     hero_image |-> IF story.hero = "none" \/ img = NoFile THEN NoHero
                    ELSE LocalHero(img)]

\* the record written for a page: hero_image is local_image or story.hero_image
JsonRecord(url, story, img, out_file) ==
    [url |-> url,
     file |-> out_file,
     title |-> story.title,
     hero_image |-> IF story.hero = "none" THEN NoHero
                    ELSE IF img = NoFile THEN RemoteHero ELSE LocalHero(img)]

\* run_upload's lookup of hero: jp.parent / hero, then jp.parent.parent / hero
HeroPath(files, rec) ==
    IF rec.hero_image.kind = "none" THEN "none"
    ELSE IF rec.hero_image.kind = "remote" THEN "remote"
    ELSE IF \/ Resolve(rec.file.dir, rec.hero_image.path) \in files
            \/ Resolve(Parent(rec.file.dir), rec.hero_image.path) \in files
    THEN "local" ELSE "remote"

\* Path(__file__).resolve().parent
ScriptDir == <<"src">>

\* hero_path with no file found, a file found at path, a value kept as it is
NoPath == [kind |-> "none", path |-> NoFile]
Found(path) == [kind |-> "local", path |-> path]
AsStored(hero) == [kind |-> hero.kind, path |-> hero.path]

\* a lookup that tries the parent of the JSON's directory first
hero_path_ParentFirst(files, jp, hero) ==
    IF hero.kind = "none" THEN NoPath
    ELSE IF hero.kind = "remote" THEN AsStored(hero)
    ELSE IF Resolve(Parent(jp.dir), hero.path) \in files
    THEN Found(Resolve(Parent(jp.dir), hero.path))
    ELSE IF Resolve(jp.dir, hero.path) \in files
    THEN Found(Resolve(jp.dir, hero.path))
    ELSE AsStored(hero)

\* hero_path: jp.parent / hero, then jp.parent.parent / hero, then hero; a
\* URL joined to a directory names no file
hero_path(files, jp, hero) ==
    IF hero.kind = "none" THEN NoPath
    ELSE IF hero.kind = "remote" THEN AsStored(hero)
    ELSE IF Resolve(jp.dir, hero.path) \in files
    THEN Found(Resolve(jp.dir, hero.path))
    ELSE IF Resolve(Parent(jp.dir), hero.path) \in files
    THEN Found(Resolve(Parent(jp.dir), hero.path))
    ELSE AsStored(hero)

\* upload_image_to_storyblok before its loop: the path as given, then under
\* the directory of the script, must exist
image_found(files, image_path) ==
    /\ image_path.kind = "local"
    /\ \/ image_path.path \in files
       \/ Resolve(ScriptDir, image_path.path) \in files

\* the record's first request: POST /assets when the image file was found,
\* else the story without an image field
first_request(files, jp, hero) ==
    LET path == hero_path(files, jp, hero) IN
    [hero_path |-> path,
     op |-> IF path.kind # "none" /\ image_found(files, path)
            THEN "create_signed_asset" ELSE "create_story",
     fields |-> IF path.kind # "none" /\ image_found(files, path)
                THEN {} ELSE ContentFields(NoAsset)]

RecordsOf(files, jsons) ==
    [k \in 1..Len(jsons) |-> Rec(jsons[k].title, HeroPath(files, jsons[k]))]

\* a run that leaves on "No stories scraped" before summary.json is written
AfterLoop_ExitBeforeSummary(files) ==
    IF script = "run" /\ files = <<>>
    THEN /\ pc' = "exit1" /\ call' = NoCall
         /\ UNCHANGED <<json_paths, summaryWrites, folders, page, resolutions>>
    ELSE /\ summaryWrites' = summaryWrites + 1
         /\ IF script = "scraper" \/ mode = "scrape_only"
            THEN /\ pc' = "done" /\ call' = NoCall
                 /\ UNCHANGED <<json_paths, folders, page, resolutions>>
            ELSE json_paths' = RecordsOf(disk', files) /\ EnterRunUpload

\* the script after the last URL: summary.json is written, then the caller goes on
AfterLoop(files) ==
    /\ summaryWrites' = summaryWrites + 1
    /\ IF script = "scraper"
       THEN /\ pc' = "done" /\ call' = NoCall
            /\ UNCHANGED <<json_paths, folders, page, resolutions>>
       ELSE IF files = <<>>
       THEN /\ pc' = "exit1" /\ call' = NoCall
            /\ UNCHANGED <<json_paths, folders, page, resolutions>>
       ELSE IF mode = "scrape_only"
       THEN /\ pc' = "done" /\ call' = NoCall
            /\ UNCHANGED <<json_paths, folders, page, resolutions>>
       ELSE json_paths' = RecordsOf(disk', files) /\ EnterRunUpload

\* what the loop did with a URL: how the fetch ended (with the status of the
\* response when it was an HTTP error), whether the story had a hero image,
\* and the image file the download wrote
Visit(url, fetch, status, found, img) ==
    [url |-> url, fetch |-> fetch, status |-> status, found |-> found, img |-> img]

NextUrl(files, fetch, status, found, img) ==
    /\ visited' = Append(visited, Visit(urls[uidx], fetch, status, found, img))
    /\ uidx' = uidx + 1
    /\ IF uidx >= Len(urls)
       THEN AfterLoop(files)
       ELSE UNCHANGED <<pc, call, json_paths, summaryWrites, folders, page, resolutions>>

\* a loop that records the failed fetch and then stops instead of continuing
ScrapeFail_Abort ==
    /\ pc = "scrape"
    /\ uidx <= Len(urls)
    /\ UNCHANGED <<jsonFiles, disk, urls>>
    /\ \E f \in FetchFailures :
         /\ summary' = [summary EXCEPT
                          !.failed = @ + 1,
                          !.errors = Append(@, ErrorEntry(script, urls[uidx], f))]
         /\ visited' = Append(visited, Visit(urls[uidx], f.type, f.status, FALSE, NoFile))
    /\ uidx' = uidx + 1
    /\ AfterLoop(jsonFiles)
    /\ UNCHANGED <<imgTry, last_err, image_asset, storyVars, loopVars, envVars>>
    /\ UNCHANGED <<cmsFolders, pathIdx, parent_id>>

\* a failed fetch that is counted as a success
ScrapeFail_CountedAsSuccess ==
    /\ pc = "scrape"
    /\ uidx <= Len(urls)
    /\ UNCHANGED <<jsonFiles, disk, urls>>
    /\ \E f \in FetchFailures :
         /\ summary' = [summary EXCEPT
                          !.success = @ + 1,
                          !.errors = Append(@, ErrorEntry(script, urls[uidx], f))]
         /\ NextUrl(jsonFiles, f.type, f.status, FALSE, NoFile)
    /\ UNCHANGED <<imgTry, last_err, image_asset, storyVars, loopVars, envVars>>
    /\ UNCHANGED <<cmsFolders, pathIdx, parent_id>>

\* one pass of the loop whose fetch_html raises
ScrapeFail ==
    /\ pc = "scrape"
    /\ uidx <= Len(urls)
    /\ UNCHANGED <<jsonFiles, disk, urls>>
    /\ \E f \in FetchFailures :
         /\ summary' = [summary EXCEPT
                          !.failed = @ + 1,
                          !.errors = Append(@, ErrorEntry(script, urls[uidx], f))]
         /\ NextUrl(jsonFiles, f.type, f.status, FALSE, NoFile)
    /\ UNCHANGED <<imgTry, last_err, image_asset, storyVars, loopVars, envVars>>
    /\ UNCHANGED <<cmsFolders, pathIdx, parent_id>>

\* one pass of the loop whose fetch_html returns the page
ScrapeOk ==
    /\ pc = "scrape"
    /\ uidx <= Len(urls)
    /\ \E story \in Pages, dl \in DownloadOutcomes :
         LET img == ImageFile(disk, story, dl)
             disk1 == IF img = NoFile THEN disk ELSE disk \cup {img}
             out_file == OutFile(disk1, story)
             files == Append(jsonFiles, JsonRecord(urls[uidx], story, img, out_file))
         IN /\ disk' = disk1 \cup {out_file}
            /\ jsonFiles' = files
            /\ NextUrl(files, "ok", 200, story.hero # "none", img)
    /\ summary' = [summary EXCEPT !.success = @ + 1]
    /\ UNCHANGED urls
    /\ UNCHANGED <<imgTry, last_err, image_asset, storyVars, loopVars, envVars>>
    /\ UNCHANGED <<cmsFolders, pathIdx, parent_id>>

\* run.py main without --upload-only, up to the fetch loop
RunMainScrape ==
    /\ pc = "main"
    /\ script = "run"
    /\ mode # "upload_only"
    /\ IF urls = <<>>
       THEN pc' = "exit1" /\ UNCHANGED summary
       ELSE pc' = "scrape" /\ summary' = EmptySummary(Len(urls))
    /\ UNCHANGED <<urls, uidx, visited, summaryWrites, jsonFiles, disk, json_paths, call>>
    /\ UNCHANGED <<imgTry, last_err, image_asset, storyVars, loopVars, envVars, folderVars>>

\* scraper.py main, up to the fetch loop
ScraperMain ==
    /\ pc = "main"
    /\ script = "scraper"
    /\ IF urls = <<>>
       THEN pc' = "done" /\ UNCHANGED summary
       ELSE pc' = "scrape" /\ summary' = EmptySummary(Len(urls))
    /\ UNCHANGED <<urls, uidx, visited, summaryWrites, jsonFiles, disk, json_paths, call>>
    /\ UNCHANGED <<imgTry, last_err, image_asset, storyVars, loopVars, envVars, folderVars>>

\* ------------------------------------------------------------------
\* Specifications
\* ------------------------------------------------------------------
UrlNames == 1..MaxUrls

\* main's de-duplicated list: no URL twice
UrlLists ==
    {q \in SeqsUpTo(UrlNames, MaxUrls) :
        \A i, j \in 1..Len(q) : i # j => q[i] # q[j]}

RecordLists(s) ==
    IF s = "uploader" THEN {<<r>> : r \in RecordKinds}
    ELSE SeqsUpTo(RecordKinds, MaxRecords)

\* the locals and the logs before the first statement
InitLocals ==
    /\ pc = "main"
    /\ uidx = 1
    /\ visited = <<>>
    /\ summary = EmptySummary(0)
    /\ summaryWrites = 0
    /\ jsonFiles = <<>>
    /\ idx = 1
    /\ outcome = <<>>
    /\ call = NoCall
    /\ imgTry = 0
    /\ last_err = "none"
    /\ image_asset = NoAsset
    /\ cand = 0
    /\ taken = {}
    /\ taken0 = {}
    /\ hist = <<>>
    /\ clean = TRUE
    /\ folders = <<>>
    /\ page = 0
    /\ resolutions = 0
    /\ pathIdx = 0
    /\ parent_id = 0
    /\ results = <<>>

\* no helper is called on its own
NoInput == [fn |-> "none", arg |-> <<>>]

InitFor(ss, ms) ==
    /\ script \in ss
    /\ mode \in ModesOf(script) \cap ms
    /\ creds \in BOOLEAN
    /\ path_parts = CONTENT_PATH
    /\ cmsTotal = "honest"
    /\ assetIds = FALSE
    /\ publish = FALSE
    /\ urls \in (IF mode = "upload_only" THEN {<<>>} ELSE UrlLists)
    /\ disk \in (IF mode = "upload_only" THEN {{}} ELSE DiskConfigs)
    /\ json_paths \in (IF mode = "upload_only" THEN RecordLists(script) ELSE {<<>>})
    /\ cmsFolders \in (IF mode = "scrape_only" THEN {<<>>} ELSE FolderConfigs)
    /\ given = NoInput
    /\ InitLocals

UploadNext ==
    \/ RunMainUpload
    \/ UploaderMain
    \/ ListFoldersAttempt
    \/ CreateFolderAttempt
    \/ LoadRecord
    \/ SignedAttempt
    \/ Transfer
    \/ StoryAttempt

ScrapeNext ==
    \/ RunMainScrape
    \/ ScraperMain
    \/ ScrapeFail
    \/ ScrapeOk

\* the publish side alone: run.py --upload-only and uploader.py
UploadInit == InitFor({"run", "uploader"}, {"upload_only"})
SpecUpload == UploadInit /\ [][UploadNext]_vars

\* the fetch side alone: run.py --scrape-only and scraper.py
ScrapeInit == InitFor({"run", "scraper"}, {"scrape_only"})
SpecScrape == ScrapeInit /\ [][ScrapeNext]_vars

\* one story alone: run.py --upload-only and uploader.py on one record with
\* a title, with and without --publish, in a space whose POST /assets
\* answers carry the asset id or not
StoryInit ==
    /\ script \in {"run", "uploader"}
    /\ mode = "upload_only"
    /\ creds = TRUE
    /\ path_parts = CONTENT_PATH
    /\ cmsTotal = "honest"
    /\ assetIds \in BOOLEAN
    /\ publish \in BOOLEAN
    /\ urls = <<>>
    /\ disk = {}
    /\ json_paths \in {<<Rec("t", h)>> : h \in {"none", "local", "remote"}}
    /\ cmsFolders \in FolderConfigs
    /\ given = NoInput
    /\ InitLocals
SpecStory == StoryInit /\ [][UploadNext]_vars

\* run.py without a mode flag: scrape, then upload what was scraped
CombinedInit ==
    /\ InitFor({"run"}, {"combined"})
    /\ Len(urls) <= MaxCombinedUrls
    /\ disk = {}

\* folder resolution alone: run.py --upload-only on one unreadable file, for
\* every folder path, space and way of reporting the total
FolderInit ==
    /\ script = "run"
    /\ mode = "upload_only"
    /\ creds = TRUE
    /\ path_parts \in PathConfigs
    /\ cmsTotal \in TotalConfigs
    /\ assetIds = FALSE
    /\ publish = FALSE
    /\ urls = <<>>
    /\ disk = {}
    /\ json_paths = <<Unreadable>>
    /\ cmsFolders \in FolderSpaces
    /\ given = NoInput
    /\ InitLocals

FolderNext ==
    \/ RunMainUpload
    \/ ListFoldersAttempt
    \/ CreateFolderAttempt
    \/ LoadRecord

SpecFolders == FolderInit /\ [][FolderNext]_vars

\* ------------------------------------------------------------------
\* The helper functions called on their own
\* ------------------------------------------------------------------
MaxUrlLen == 3
MaxNodes == 3
MaxBlocks == 2
MaxLines == 3
MaxNameLen == 4

\* get_page_base of the page being scraped
PageBase == <<"https", ":", "/", "/", "h">>

UrlSyms == {"a", ":", "/", "?", "#", " ", "%20"}

\* absolute, protocol-relative, root-relative and document-relative URLs,
\* with a query, with escapes, with upper case and with blanks around them
SampleUrls ==
    { <<"https", ":", "/", "/", "h", "/", "a", ".jpg">>,
      <<"HTTPS", ":", "/", "/", "h", "/", "a", " ", "a", ".jpg", "?", "a", " ", "a">>,
      <<"https", ":", "/", "/", "h", "/", "a", "%20", "a", "?", "a", "%3F", "#", "a">>,
      <<"/", "/", "h", "/", "a", ".jpg">>,
      <<" ", "/", "a", "/", "a", ".jpg", "?", "a", "/", "a", " ">>,
      <<"a", "/", "a", ".jpg">>,
      <<"a", ".jpg", "?", "a">> }

Urls == SeqsUpTo(UrlSyms, MaxUrlLen) \cup SampleUrls

\* title sources: h1 elements (empty, with blanks to normalise, a second
\* one, one inside a div), og:title metas with and without content, a
\* title element, and a meta that is no title source
TitleElements ==
    { H1(<<>>), H1(<<" ", "H", "nbsp", " ", "H", " ">>), H1(<<"G">>),
      Div("ContentMain", <<H1(<<"D">>)>>),
      Meta("og:title", <<"O">>), Meta("og:title", <<>>),
      Meta("og:description", <<"X">>),
      TitleTag(<<"P", " ">>) }

TitleDocs == SeqsUpTo(TitleElements, MaxNodes)

\* src values: two that pass, one blocklisted, one blocklisted in upper
\* case, one that is no image file, an empty one
GoodSrc == <<"/", "a", ".jpg">>
UpperSrc == <<"/", "h", ".JPG">>
LogoSrc == <<"https", ":", "/", "/", "h", "/", "logo", ".jpg">>
UpperLogoSrc == <<"/", "LOGO", ".JPG">>
TextSrc == <<"/", "a", ".txt">>

ImgElements ==
    { Img(GoodSrc), Img(UpperSrc), Img(LogoSrc), Img(UpperLogoSrc), Img(TextSrc),
      Img(<<>>), ImgNoSrc }

\* containers with their images, and a div that is no container
HeroElements ==
    ImgElements
    \cup {Div(c, imgs) : c \in {"ContentMain", "MainContentZone"},
                         imgs \in SeqsUpTo({Img(GoodSrc), Img(UpperLogoSrc)}, 2)}
    \cup {Div("other", <<Img(GoodSrc)>>)}

HeroDocs == SeqsUpTo(HeroElements, MaxBlocks)

ParseDocs == SeqsUpTo(TitleElements \cup ImgElements, MaxBlocks)

\* lines of a links file: URLs with and without blanks around them, blank
\* lines, comments
LinkLines ==
    { <<"a">>, <<" ", "a", " ">>, <<"b">>, <<>>, <<" ">>, <<"#", "c">>, <<" ", "#", "c">> }

LinksFiles ==
    {LinksFile(TRUE, lines) : lines \in SeqsUpTo(LinkLines, MaxLines)}
    \cup {LinksFile(TRUE, << <<"a">>, <<"#", "c">>, <<>>, <<"a">>, <<"b">> >>),
          LinksFile(FALSE, <<>>)}

\* titles: short ones over a letter, blank, dot, colon and underscore, the
\* title "S: <T>/N", and titles around the cap of 200 characters
Titles ==
    SeqsUpTo({"a", " ", ".", ":", "_"}, MaxNameLen)
    \cup {<<"S", ":", " ", "<", "T", ">", "/", "N">>}
    \cup {Run("a", n) \o tail : n \in {NameCap - 1, NameCap, NameCap + 1},
                                tail \in {<<>>, <<" ", "a">>, <<".">>}}

\* Content-Type headers, lowered: the four image types, a page, none
ContentTypes ==
    { <<"image/", "png">>, <<"image/", "jpeg">>, <<"image/", "gif">>,
      <<"image/", "webp">>, <<"text/", "html">>, <<>> }

\* image URLs with no, one or several extensions, one in upper case
ImageUrls ==
    SeqsUpTo({"a", ".png", ".jpg", ".JPG"}, MaxUrlLen)
    \cup { <<"a", ".jpeg">>, <<"a", ".gif">>, <<"a", ".webp">>, <<"a", ".gif", "?", ".png">> }

Download(ct, image_url) == [ct |-> ct, url |-> image_url]

\* description and body_text values of a record: nothing, blanks, line
\* ends, text
FieldTexts == SeqsUpTo({"d", " ", "\n"}, MaxBlocks)

Fields(description, body_text) == [description |-> description, body_text |-> body_text]

\* blocks of a page: paragraphs and emphasised lines of three characters,
\* of two, with blanks to normalise, an em inside a p, divs of every class
Long == <<"x", "x", "x">>
Short == <<"y", "y">>
BodyElements ==
    { P(Long, <<>>), P(Short, <<>>), P(<<" ", "z", "nbsp", " ", "z", "z", " ">>, <<>>),
      Em(<<"e", "e", "e">>, <<>>), Em(<<"e">>, <<>>),
      P(<<"x">>, <<Em(<<"e", "e", "e">>, <<>>)>>),
      Img(GoodSrc),
      Div("ContentMain", <<P(Long, <<>>), Em(<<"e", "e", "e">>, <<>>)>>),
      Div("MainContentZone", <<Em(Short, <<>>), P(<<"m", "m", "m">>, <<>>)>>),
      Div("page-content", <<P(<<"c", "c", "c">>, <<>>), Img(GoodSrc)>>),
      Div("other", <<P(<<"o", "o", "o">>, <<>>)>>),
      P(<<>>, <<Div("ContentMain", <<Em(<<"e", "e", "e">>, <<>>)>>)>>) }

BodyDocs == SeqsUpTo(BodyElements, MaxBlocks)

\* a JSON file of a run, the hero image of its story, and the places the
\* image may be at: under the JSON's directory, under its parent, under the
\* working directory, under the directory of the script
JsonFile == File(OutputDir, <<"t">>, "json")
StoredHero == LocalHero(File(ImagesDir, <<"t">>, "jpg"))
HeroPlaces ==
    { Resolve(OutputDir, StoredHero.path), Resolve(RunRoot, StoredHero.path),
      StoredHero.path, Resolve(ScriptDir, StoredHero.path) }
HeroCases ==
    {[files |-> fs, jp |-> JsonFile, hero |-> h] :
        fs \in SUBSET HeroPlaces, h \in {NoHero, RemoteHero, StoredHero}}

Call(fn, arg) == [fn |-> fn, arg |-> arg]

HelperInputs ==
    {Call("normalize_url", u) : u \in Urls}
    \cup {Call("extract_title", d) : d \in TitleDocs}
    \cup {Call("extract_hero_image", d) : d \in HeroDocs}
    \cup {Call("parse_story_html", d) : d \in ParseDocs}
    \cup {Call("read_links_file", f) : f \in LinksFiles}
    \cup {Call("sanitize_filename", t) : t \in Titles}
    \cup {Call("download_image", Download(ct, u)) : ct \in ContentTypes, u \in ImageUrls}
    \cup {Call("final_desc", Fields(d, b)) : d \in FieldTexts, b \in FieldTexts}
    \cup {Call("first_request", c) : c \in HeroCases}
    \cup {Call("extract_body_text", d) : d \in BodyDocs}
    \cup {Call("content_containers", d) : d \in BodyDocs}

\* the helpers that are not the same code in every script
ScriptsOf(fn) ==
    IF fn = "download_image" THEN {"run", "scraper"}
    ELSE IF fn = "final_desc" THEN {"run", "uploader"}
    ELSE IF fn = "first_request" THEN {"run", "uploader"}
    ELSE {"scraper"}

\* a helper called once with the argument given
Apply(fn, value) ==
    /\ given.fn = fn
    /\ results = <<>>
    /\ results' = <<value>>
    /\ UNCHANGED <<given, script, mode, creds, path_parts, cmsTotal, assetIds, publish>>
    /\ UNCHANGED <<scrapeVars, loopVars, recVars, folderVars, json_paths>>

ExtractTitle == Apply("extract_title", extract_title(given.arg))

ExtractHeroImage == Apply("extract_hero_image", extract_hero_image(given.arg, PageBase))

ParseStoryHtml == Apply("parse_story_html", parse_story_html(given.arg, PageBase))

ReadLinksFile == Apply("read_links_file", read_links_file(given.arg))

SanitizeFilename == Apply("sanitize_filename", sanitize_filename(given.arg))

DownloadImage ==
    Apply("download_image", image_ext(script, given.arg.ct, given.arg.url))

FinalDesc ==
    Apply("final_desc", final_desc(script, given.arg.description, given.arg.body_text))

\* a record from its hero_image field to its first request
FirstRequest ==
    Apply("first_request", first_request(given.arg.files, given.arg.jp, given.arg.hero))

ExtractBodyText == Apply("extract_body_text", extract_body_text(given.arg))

\* extract_hero_image and extract_body_text up to their find_all
ContentContainers == Apply("content_containers", content_containers(given.arg))

\* normalize_url(url, page_base), then normalize_url of what it returned
NormalizeUrl ==
    /\ given.fn = "normalize_url"
    /\ Len(results) < 2
    /\ results' = Append(results,
                         normalize_url(IF results = <<>> THEN given.arg
                                       ELSE results[Len(results)], PageBase))
    /\ UNCHANGED <<given, script, mode, creds, path_parts, cmsTotal, assetIds, publish>>
    /\ UNCHANGED <<scrapeVars, loopVars, recVars, folderVars, json_paths>>

HelperInit ==
    /\ given \in HelperInputs
    /\ script \in ScriptsOf(given.fn)
    /\ mode = "scrape_only"
    /\ creds = FALSE
    /\ path_parts = CONTENT_PATH
    /\ cmsTotal = "honest"
    /\ assetIds = FALSE
    /\ publish = FALSE
    /\ urls = <<>>
    /\ disk = {}
    /\ json_paths = <<>>
    /\ cmsFolders = <<>>
    /\ InitLocals

HelperNext ==
    \/ NormalizeUrl
    \/ ExtractTitle
    \/ ExtractHeroImage
    \/ ParseStoryHtml
    \/ ReadLinksFile
    \/ SanitizeFilename
    \/ DownloadImage
    \/ FinalDesc
    \/ FirstRequest
    \/ ExtractBodyText
    \/ ContentContainers

SpecHelpers == HelperInit /\ [][HelperNext]_vars

\* every script in every mode
Init == UploadInit \/ ScrapeInit \/ CombinedInit
Next == UploadNext \/ ScrapeNext
Spec == Init /\ [][Next]_vars

\* a script that is not killed keeps executing its next statement
FairSpecScrape == SpecScrape /\ WF_vars(ScrapeNext)

\* ------------------------------------------------------------------
\* Properties of the CMS client (SpecUpload)
\* ------------------------------------------------------------------
AttemptFailed(resp) ==
    resp.kind # "http" \/ resp.status >= 400 \/ resp.body = {"garbage"}

IsErrorOf(err, resp) ==
    IF resp.kind # "http" THEN err.type = resp.kind
    ELSE IF resp.status >= 400
    THEN err.type = "HTTPError" /\ err.status = resp.status /\ err.body = resp.body
    ELSE err.type = "ValueError"

\* C1: a call through _req makes at most 4 attempts; an attempt that raises
\* or answers with a status >= 400 has failed and is followed by another
\* attempt only while fewer than 4 were made; a successful attempt ends the
\* call (no attempt is made on a call that has returned or raised); a call
\* raises only after its 4th failed attempt, and raises that attempt's error.
C1_ReqAtMostFourAttempts ==
    [][ /\ call'.attempt <= 4
        /\ (call'.state = "returned") => ~AttemptFailed(call'.last)
        /\ (call'.state = "raised") =>
              /\ call'.attempt = 4
              /\ AttemptFailed(call'.last)
              /\ IsErrorOf(call'.err, call'.last)
        /\ (call'.state = "running" /\ call'.attempt > 0) =>
              /\ AttemptFailed(call'.last)
              /\ call'.attempt < 4
        /\ (call'.attempt = call.attempt + 1) => call.state = "running"
        /\ \A k \in 1..Len(hist') :
              /\ hist'[k].attempts <= 4
              /\ (hist'[k].state = "raised") => hist'[k].attempts = 4
      ]_vars

\* a call whose 4 attempts all ended in an HTTP error status has raised
C1_Witness ==
    /\ call.state = "raised"
    /\ call.attempt = 4
    /\ call.err.type = "HTTPError"

\* C2: the i-th sleep of a call lasts 1.2 * i seconds (12 tenths); a call
\* that returns on attempt k + 1 has slept k times, a call that raises has
\* slept 3 times (1.2, 2.4, 3.6) and not after its last attempt.
C2_LinearBackoff ==
    /\ \A i \in 1..Len(call.sleeps) : call.sleeps[i] = 12 * i
    /\ (call.state = "returned") => Len(call.sleeps) = call.attempt - 1
    /\ (call.state = "raised") => call.sleeps = <<12, 24, 36>>
    /\ (call.state = "running") => Len(call.sleeps) = call.attempt

\* three failures, then success on the 4th attempt
C2_Witness ==
    /\ call.state = "returned"
    /\ call.attempt = 4
    /\ call.sleeps = <<12, 24, 36>>

\* ------------------------------------------------------------------
\* Properties of create_storyblok_story (SpecUpload)
\* ------------------------------------------------------------------
\* create_storyblok_story has ended for the record processed last
StoryOver == pc \in {"load", "done", "exit1"} /\ hist # <<>>

LastOutcome == outcome[Len(outcome)]

ConflictEntry(e) ==
    /\ e.state = "raised"
    /\ e.err.type = "HTTPError"
    /\ e.err.status = 422
    /\ ("already taken" \in e.err.body \/ "slug" \in e.err.body)

\* C3: when the space holds the first two slug candidates and not the third,
\* and the CMS answers every request with its own verdict, the function
\* makes 3 creation calls and returns the story created under the third.
C3_ThirdCandidateWins ==
    (StoryOver /\ taken0 = {1, 2} /\ clean) =>
        /\ Len(hist) = 3
        /\ LastOutcome.res = "created"
        /\ LastOutcome.slug = "timestamp"

\* C4: a creation call is followed by the call for the next candidate if and
\* only if it raised a 422 whose body mentions the slug conflict; a call that
\* raised anything else is the record's last, and the record fails.
C4_NextCandidateIffConflict ==
    /\ \A k \in 1..Len(hist) : (k < Len(hist)) => ConflictEntry(hist[k])
    /\ StoryOver =>
          LET last == hist[Len(hist)] IN
          /\ (ConflictEntry(last) /\ Len(hist) < 3) => FALSE
          /\ (last.state = "raised") => LastOutcome.res = "failed"

\* C5: a record's creation calls use at most 3 slug candidates: the k-th
\* call uses the k-th of bare slug, 4-digit suffix, timestamp suffix, so
\* no candidate is used by two calls.
C5_ThreeCandidatesInOrder ==
    /\ Len(hist) <= 3
    /\ \A k \in 1..Len(hist) : hist[k].slug = <<"bare", "random4", "timestamp">>[k]
    /\ (pc = "story") => (cand = Len(hist) + 1 /\ cand <= 3)

\* all three candidates have been used for one record
C5_Witness == StoryOver /\ Len(hist) = 3

\* C6: a record fails on a slug conflict only when all 3 candidates were
\* rejected with one, and then it does fail.
C6_ConflictFailsOnlyWhenExhausted ==
    StoryOver =>
        /\ (LastOutcome.res = "failed" /\ ConflictEntry(hist[Len(hist)])) =>
              /\ Len(hist) = 3
              /\ \A k \in 1..3 : ConflictEntry(hist[k])
        /\ (Len(hist) = 3 /\ ConflictEntry(hist[3])) => LastOutcome.res = "failed"

\* ------------------------------------------------------------------
\* Properties of run_upload (SpecUpload)
\* ------------------------------------------------------------------
LoopPcs == {"load", "signed", "transfer", "story"}

Blank(rec) == ~rec.readable \/ rec.title \in {"", " "}

\* C7: in run_upload's loop the records get their outcomes one at a time and
\* in list order, record k as the k-th; no step taken inside the loop leaves
\* it other than to the normal end of the run, whatever fails for a record;
\* the loop never waits on anything; when the run is done every record has
\* exactly one outcome, and unreadable or untitled records are skipped.
C7_EveryRecordOnceInOrder ==
    /\ [](pc \in LoopPcs => ENABLED UploadNext)
    /\ [][ (script = "run") =>
            /\ \A k \in 1..Len(outcome') : outcome'[k].rec = k
            /\ Len(outcome') = idx' - 1
            /\ SubSeq(outcome', 1, Len(outcome)) = outcome
            /\ Len(outcome') <= Len(outcome) + 1
            /\ (pc \in LoopPcs) => (pc' \in LoopPcs \cup {"done"})
            /\ (pc' \in LoopPcs) => idx' <= Len(json_paths)
            /\ (pc' \in {"signed", "transfer", "story"}) => ~Blank(json_paths[idx'])
            /\ (pc' = "done") => Len(outcome') = Len(json_paths)
            /\ \A k \in 1..Len(outcome') :
                  /\ outcome'[k].res \in {"created", "failed", "skipped"}
                  /\ (outcome'[k].res = "skipped") <=> Blank(json_paths[k])
          ]_vars

\* the first record failed at story creation, the second was then created
C7_Witness ==
    /\ script = "run"
    /\ pc = "done"
    /\ Len(outcome) = 2
    /\ outcome[1].res = "failed"
    /\ outcome[2].res = "created"

\* C8: a CMS call that exhausted its retries leaves run.py inside the record
\* loop or at its normal end: the run is not aborted, and a run that has
\* stopped has given every record its outcome.
C8_ExhaustedCallNeverAbortsRun ==
    (script = "run" /\ call.state = "raised") =>
        /\ pc \in LoopPcs \cup {"done"}
        /\ (pc = "done") => Len(outcome) = Len(json_paths)

\* ------------------------------------------------------------------
\* Properties of the fetch loop (SpecScrape, FairSpecScrape)
\* ------------------------------------------------------------------
Ended == {"done", "exit1"}

ErrorsFor(u) == {k \in 1..Len(summary.errors) : summary.errors[k].url = u}
FilesFor(u) == {k \in 1..Len(jsonFiles) : jsonFiles[k].url = u}

\* C9: the loop hands the URLs to fetch_html one by one in input order, each
\* once; a URL whose fetch failed has exactly one entry in the summary's
\* error list and no JSON record; the loop is left only after the last URL.
C9_FetchFailureSkipsUrl ==
    /\ Len(visited) = uidx - 1
    /\ Len(visited) <= Len(urls)
    /\ \A k \in 1..Len(visited) : visited[k].url = urls[k]
    /\ \A k \in 1..Len(visited) :
          (visited[k].fetch # "ok") =>
              /\ Cardinality(ErrorsFor(visited[k].url)) = 1
              /\ FilesFor(visited[k].url) = {}
    /\ (pc = "scrape") => uidx <= Len(urls)
    /\ (pc \in Ended /\ urls # <<>>) => Len(visited) = Len(urls)

\* the first fetch failed and the second URL was fetched and saved all the same
C9_Witness ==
    /\ pc \in Ended
    /\ Len(visited) = 2
    /\ visited[1].fetch # "ok"
    /\ visited[2].fetch = "ok"
    /\ FilesFor(visited[2].url) # {}

FailedVisits == SelectSeq(visited, LAMBDA v : v.fetch # "ok")

JsonFilesWritten == {jsonFiles[k].file : k \in 1..Len(jsonFiles)}

\* C11: once the loop runs, success + failed is the number of URLs processed
\* so far and total is the number of input URLs, so a finished run has
\* total = success + failed; the error list has one entry per failed URL, in
\* the order the URLs failed; the JSON files written are as many as success.
C11_SummaryCountersConsistent ==
    (pc \in {"scrape", "done", "exit1"} /\ urls # <<>>) =>
        /\ summary.success + summary.failed = Len(visited)
        /\ summary.total = Len(urls)
        /\ (pc \in {"done", "exit1"}) =>
              summary.total = summary.success + summary.failed
        /\ Len(summary.errors) = summary.failed
        /\ Len(FailedVisits) = summary.failed
        /\ \A k \in 1..Len(FailedVisits) :
              /\ summary.errors[k].url = FailedVisits[k].url
              /\ summary.errors[k].type = FailedVisits[k].fetch
        /\ Len(jsonFiles) = summary.success
        /\ Cardinality(JsonFilesWritten) = summary.success

\* a finished run of two URLs, one saved and one failed
C11_Witness ==
    /\ pc \in {"done", "exit1"}
    /\ summary.total = 2
    /\ summary.success = 1
    /\ summary.failed = 1

\* ------------------------------------------------------------------
\* Properties of the start of an upload (Spec)
\* ------------------------------------------------------------------
\* C12 as stated: with a credential missing, a run that is to upload
\* (upload-only or scrape-then-upload) does nothing but exit with status 1:
\* no page is fetched, no image downloaded, no file written and no CMS
\* request made.
C12_NoNetworkWithoutCredentials ==
    (~creds /\ mode \in {"upload_only", "combined"}) =>
        /\ pc \in {"main", "exit1"}
        /\ visited = <<>>
        /\ jsonFiles = <<>>
        /\ call.attempt = 0
        /\ hist = <<>>

\* ------------------------------------------------------------------
\* Properties of the record loop (SpecUpload)
\* ------------------------------------------------------------------
UploadPcs == {"signed", "transfer"}

BlankTitle(rec) == rec.readable /\ rec.title \in {"", " "}

\* C14: no request is ever in flight for a record whose title is empty or
\* whitespace: run.py notes it as skipped in the step that loads it, with no
\* call started, and goes on to the next record or to the end of the list;
\* uploader.py exits before its first request.
C14_BlankTitleSkipped ==
    [][ /\ (pc' \in LoopPcs \ {"load"}) => ~BlankTitle(json_paths[idx'])
        /\ (pc = "load" /\ BlankTitle(json_paths[idx])) =>
              /\ outcome' = Append(outcome, [rec |-> idx, res |-> "skipped", slug |-> "none"])
              /\ idx' = idx + 1
              /\ call'.op = "none"
              /\ call'.attempt = 0
              /\ pc' = IF idx < Len(json_paths) THEN "load" ELSE "done"
        /\ (script = "uploader" /\ pc = "main" /\ BlankTitle(json_paths[1])) =>
              /\ pc' = "exit1"
              /\ call'.op = "none"
      ]_vars

\* a whitespace title with a local hero image was skipped and the next
\* record was created
C14_Witness ==
    /\ script = "run"
    /\ pc = "done"
    /\ json_paths[1] = [readable |-> TRUE, title |-> " ", hero |-> "local"]
    /\ Len(outcome) = 2
    /\ outcome[1].res = "skipped"
    /\ outcome[2].res = "created"

FolderPcs == {"list_folders", "create_folder"}

\* C15: ensure_content_folder_by_path is called at most once in a run, and
\* once when the record loop runs; folder requests are made only before the
\* first record; while records are processed the folder id and the space's
\* folders do not change and no folder request is started; every story
\* creation request carries the folder id as parent_id.
C15_FolderResolvedOnce ==
    [][ /\ resolutions' <= 1
        /\ (pc' \in LoopPcs) => resolutions' = 1
        /\ (pc' \in FolderPcs) => (idx' = 1 /\ outcome' = <<>> /\ hist' = <<>>)
        /\ (call'.op \in {"list_folders", "create_folder"} /\ call'.state = "running") =>
              pc' \in FolderPcs
        /\ (pc \in LoopPcs) =>
              /\ parent_id' = parent_id
              /\ cmsFolders' = cmsFolders
              /\ resolutions' = resolutions
              /\ pc' \notin FolderPcs
        /\ (call'.op = "create_story") => call'.req.parent_id = parent_id'
      ]_vars

\* both records of a run were created under the folder that the run created
C15_Witness ==
    /\ script = "run"
    /\ pc = "done"
    /\ Len(outcome) = 2
    /\ outcome[1].res = "created"
    /\ outcome[2].res = "created"
    /\ parent_id = 22
    /\ call.req.parent_id = 22
    /\ resolutions = 1

\* ------------------------------------------------------------------
\* Properties of the folder resolution (SpecFolders)
\* ------------------------------------------------------------------
Resolved == pc \in {"load", "done"}

FolderSet == {folders[k] : k \in 1..Len(folders)}
CreatedFolders == {f \in FolderSet : f.id \in 21..22}
ListedFolders == FolderSet \ CreatedFolders

\* C16: when ensure_content_folder_by_path has returned, the folders it
\* used form a chain from the root: the folder of level i has the i-th name
\* of the path and the folder of level i - 1 (the root, id 0, for level 1) as
\* its parent, and the result is the id of the last one; a folder of the
\* chain was created only when no listed folder had that name under that
\* parent; nothing but chain folders was created, one per level at most;
\* for the empty path the result is 0 and no request was made.
C16_WalkFromRootByNameAndParent ==
    Resolved =>
        IF path_parts = <<>>
        THEN parent_id = 0 /\ page = 0 /\ folders = <<>> /\ call.attempt = 0
        ELSE \E ch \in [1..Len(path_parts) -> {f \in FolderSet : f.name # "other"}] :
                /\ \A i \in 1..Len(path_parts) :
                      /\ ch[i].name = path_parts[i]
                      /\ ch[i].parent_id = IF i = 1 THEN 0 ELSE ch[i - 1].id
                      /\ (ch[i] \in CreatedFolders) =>
                            ~ \E g \in ListedFolders :
                                /\ g.name = ch[i].name
                                /\ g.parent_id = ch[i].parent_id
                /\ parent_id = ch[Len(path_parts)].id
                /\ CreatedFolders \subseteq {ch[i] : i \in 1..Len(path_parts)}
                /\ \A f \in CreatedFolders : f \in {cmsFolders[k] : k \in 1..Len(cmsFolders)}

\* the space had success-stories at the root only: both levels were created
C16_Witness ==
    /\ Resolved
    /\ path_parts = <<"Automation", "success-stories">>
    /\ cmsFolders[1].name = "success-stories"
    /\ parent_id = 22

\* C17 as stated: list_folders asks for the pages 1, 2, 3, ... in order, adds
\* each page to its result, stops after the first page that reaches the
\* reported total or is empty, and returns all the folders of the space.
C17_ListFoldersReturnsAll ==
    [][ /\ (pc = "list_folders" /\ pc' = "list_folders") =>
              /\ page' \in {page, page + 1}
              /\ call'.req.page = page'
              /\ (page' = page + 1) =>
                    /\ Len(folders') = IF Len(cmsFolders) < 100 * page
                                       THEN Len(cmsFolders) ELSE 100 * page
                    /\ folders' = SubSeq(cmsFolders, 1, Len(folders'))
        /\ (pc # "list_folders" /\ pc' = "list_folders") => (page' = 1 /\ folders' = <<>>)
        /\ (pc = "list_folders" /\ pc' \notin {"list_folders", "crashed"}) =>
              /\ page' = page
              /\ folders' = cmsFolders
      ]_vars

\* C18 as stated: the hero_image of a record whose image was downloaded,
\* resolved against the directory of the record's JSON file, is the image
\* file that was written.
C18_HeroPathRelativeToRecordDir ==
    \A k \in 1..Len(jsonFiles) :
        (jsonFiles[k].hero_image.kind = "local") =>
            Resolve(jsonFiles[k].file.dir, jsonFiles[k].hero_image.path) \in disk

OkVisits == SelectSeq(visited, LAMBDA v : v.fetch = "ok")

\* C19: every fetched page has its JSON record and is counted as a success,
\* whatever became of the image: the record's hero_image is the path of the
\* written image file, relative to the run folder, when the download
\* succeeded; the remote URL when a hero image was found and the download
\* failed; null when the page had no hero image.
C19_ImageFailureKeepsStory ==
    /\ Len(jsonFiles) = Len(OkVisits)
    /\ (pc \in {"scrape", "done", "exit1"} /\ urls # <<>>) =>
          summary.success = Len(OkVisits)
    /\ \A k \in 1..Len(jsonFiles) :
          LET rec == jsonFiles[k]
              v == OkVisits[k]
          IN /\ rec.url = v.url
             /\ rec.file \in disk
             /\ (~v.found) => rec.hero_image.kind = "none"
             /\ (v.found /\ v.img = NoFile) => rec.hero_image.kind = "remote"
             /\ (v.found /\ v.img # NoFile) =>
                   /\ rec.hero_image.kind = "local"
                   /\ v.img \in disk
                   /\ Resolve(<<"root">>, rec.hero_image.path) = v.img

\* a finished run whose only page had a hero image that could not be downloaded
C19_Witness ==
    /\ pc \in {"done", "exit1"}
    /\ Len(jsonFiles) = 1
    /\ visited[1].found
    /\ visited[1].img = NoFile
    /\ jsonFiles[1].hero_image.kind = "remote"
    /\ summary.success = 1

\* C20: a pass that saves a story writes its JSON file, and its image file
\* when one was downloaded, under names that did not exist; nothing else on
\* disk changes; each name is the sanitized title with the first counter
\* (none, _1, _2, ...) whose name was free; so the JSON files of a run are
\* pairwise distinct.
C20_NoOverwriteFirstFreeName ==
    [][ /\ disk \subseteq disk'
        /\ (Len(jsonFiles') = Len(jsonFiles) + 1) =>
              LET rec == jsonFiles'[Len(jsonFiles')]
                  v == visited'[Len(visited')]
                  stem == safe_title(rec.title)
                  Named(f, dir, ext) ==
                      \E c \in 0..9 :
                          /\ f = File(dir, Suffixed(stem, c), ext)
                          /\ \A d \in 0..(c - 1) :
                                File(dir, Suffixed(stem, d), ext) \in disk
              IN /\ rec.file \notin disk
                 /\ Named(rec.file, <<"root", "output">>, "json")
                 /\ (v.img # NoFile) =>
                       /\ v.img \notin disk
                       /\ Named(v.img, <<"root", "output", "images">>, v.img.ext)
                 /\ disk' = disk \cup {rec.file}
                                \cup (IF v.img = NoFile THEN {} ELSE {v.img})
                 /\ \A k \in 1..Len(jsonFiles) : jsonFiles[k].file # rec.file
      ]_vars

\* two stories with the title t in a folder that already held t_1.json
C20_Witness ==
    /\ Len(jsonFiles) = 2
    /\ jsonFiles[1].title = "t"
    /\ jsonFiles[2].title = "t"
    /\ jsonFiles[1].file.stem = <<"t">>
    /\ jsonFiles[2].file.stem = <<"t", "2">>

\* ------------------------------------------------------------------
\* Properties of the helper functions (SpecHelpers)
\* ------------------------------------------------------------------
\* C21 as stated: normalize_url applied to its own result returns that
\* result, for absolute, protocol-relative, root-relative and
\* document-relative inputs, with or without a query and escapes.
C21_NormalizeUrlIdempotent ==
    (given.fn = "normalize_url" /\ Len(results) = 2) => results[2] = results[1]

Called(fn) == given.fn = fn /\ results # <<>>

Min(S) == CHOOSE k \in S : \A m \in S : k <= m

\* the elements of a document with this tag and attribute, by position
Positions(doc, tag, key) ==
    {k \in 1..Len(Flatten(doc)) : Flatten(doc)[k].tag = tag /\ Flatten(doc)[k].key = key}

\* the normalized text of the first such element
FirstText(doc, tag, key) == safe_text(Flatten(doc)[Min(Positions(doc, tag, key))].value)

\* C22 as stated: the title of the record that parse_story_html returns is
\* never empty, and it is "Untitled" when no h1, og:title meta or title
\* element of the document has any text.
C22_TitleNeverEmpty ==
    Called("parse_story_html") =>
        LET doc == given.arg
            sources == Positions(doc, "h1", "") \cup Positions(doc, "meta", "og:title")
                       \cup Positions(doc, "title", "")
        IN /\ results[1].title # <<>>
           /\ (\A k \in sources : safe_text(Flatten(doc)[k].value) = <<>>) =>
                 results[1].title = <<"Untitled">>

\* C23: extract_title returns the normalized text of the first h1 of the
\* document when it has an h1; else the normalized content of its first
\* og:title meta when it has one; else the normalized text of its first
\* title element when it has one; else "Untitled".
C23_TitleFallbackOrder ==
    Called("extract_title") =>
        LET doc == given.arg
            h1 == Positions(doc, "h1", "")
            og == Positions(doc, "meta", "og:title")
            tt == Positions(doc, "title", "")
        IN /\ (h1 # {}) => results[1] = FirstText(doc, "h1", "")
           /\ (h1 = {} /\ og # {}) => results[1] = FirstText(doc, "meta", "og:title")
           /\ (h1 = {} /\ og = {} /\ tt # {}) => results[1] = FirstText(doc, "title", "")
           /\ (h1 = {} /\ og = {} /\ tt = {}) => results[1] = <<"Untitled">>

\* a document whose title element comes before its og:title meta and that
\* has no h1: the title is the meta's content
C23_Witness ==
    /\ given.fn = "extract_title"
    /\ given.arg = <<TitleTag(<<"P", " ">>), Meta("og:title", <<"O">>)>>
    /\ results = << <<"O">> >>

\* src contains a blocklist entry, in whatever case
Blocklisted(src) ==
    \E k \in 1..Len(src) :
        src[k] \in {"facebook.com/tr", "google-analytics", "pixel", "doubleclick", "logo",
                    "icon", "avatar", "_layouts", "spcommon", "siteassets", "LOGO"}

\* src ends with a known image extension, in whatever case
ImageName(src) ==
    /\ src # <<>>
    /\ src[Len(src)] \in {".png", ".jpg", ".jpeg", ".gif", ".webp", ".JPG"}

\* the elements of the container that is searched, in document order
Searched(doc) ==
    LET main == Positions(doc, "div", "ContentMain")
        zone == Positions(doc, "div", "MainContentZone")
    IN IF main # {} THEN Flatten(doc)[Min(main)].children
       ELSE IF zone # {} THEN Flatten(doc)[Min(zone)].children
       ELSE Flatten(doc)

\* C24: extract_hero_image returns the normalized URL of the first img of
\* the searched container (the first ContentMain div, else the first
\* MainContentZone div, else the document) whose src has no blocklist entry
\* in any case and ends with an image extension, and null when there is no
\* such img; what it returns contains no blocklist entry.
C24_HeroImageFirstPassing ==
    Called("extract_hero_image") =>
        LET area == Searched(given.arg)
            passing == {k \in 1..Len(area) :
                          /\ area[k].tag = "img"
                          /\ area[k].key = "src"
                          /\ ~Blocklisted(area[k].value)
                          /\ ImageName(area[k].value)}
        IN /\ (passing = {}) => ~results[1].some
           /\ (passing # {}) =>
                 /\ results[1].some
                 /\ results[1].str = normalize_url(area[Min(passing)].value, PageBase)
           /\ ~Blocklisted(results[1].str)

\* an image before the container is not looked at, LOGO.JPG in the container
\* is skipped and the image after it is returned
C24_Witness ==
    /\ given.fn = "extract_hero_image"
    /\ given.arg = <<Img(<<"/", "h", ".JPG">>),
                     Div("ContentMain", <<Img(<<"/", "LOGO", ".JPG">>),
                                          Img(<<"/", "a", ".jpg">>)>>)>>
    /\ results = <<Some(<<"https", ":", "/", "/", "h", "/", "a", ".jpg">>)>>

\* the lines of the file that count, trimmed: not blank, no comment
Trimmed(line) == strip(line, {" ", "nbsp"})
Counts(line) == Trimmed(line) # <<>> /\ Trimmed(line)[1] # "#"

\* the position of the first line that is u once trimmed
FirstLine(lines, u) == Min({k \in 1..Len(lines) : Trimmed(lines[k]) = u})

\* C25: read_links_file of an existing file returns the trimmed lines that
\* are not blank and do not start with "#": each of them once, none else,
\* ordered by the position of their first occurrence in the file.
C25_LinksDedupedInOrder ==
    (Called("read_links_file") /\ given.arg.exists) =>
        LET lines == given.arg.lines
            out == results[1].value
        IN /\ results[1].raised = "none"
           /\ \A i, j \in 1..Len(out) : (i # j) => out[i] # out[j]
           /\ \A i \in 1..Len(out) :
                 \E k \in 1..Len(lines) : Counts(lines[k]) /\ out[i] = Trimmed(lines[k])
           /\ \A k \in 1..Len(lines) :
                 Counts(lines[k]) => \E i \in 1..Len(out) : out[i] = Trimmed(lines[k])
           /\ \A i, j \in 1..Len(out) :
                 (i < j) => FirstLine(lines, out[i]) < FirstLine(lines, out[j])

\* the file a, #c, blank, a, b gives a, b
C25_Witness ==
    /\ given.fn = "read_links_file"
    /\ given.arg.lines = << <<"a">>, <<"#", "c">>, <<>>, <<"a">>, <<"b">> >>
    /\ results = <<Returned(<< <<"a">>, <<"b">> >>)>>

CountOf(c, str) == Cardinality({k \in 1..Len(str) : str[k] = c})

\* C27: sanitize_filename returns a name that is not empty, has at most 200
\* characters, none of < > : " / \ | ? * and no blank; a title that fits in
\* 200 characters keeps its underscores and gets one for each of its blanks;
\* a title of nothing but removed characters and dots gives "story".
C27_SanitizedNameIsSafe ==
    Called("sanitize_filename") =>
        LET title == given.arg
            name == results[1]
        IN /\ name # <<>>
           /\ Len(name) <= 200
           /\ \A k \in 1..Len(name) :
                 name[k] \notin {"<", ">", ":", "\"", "/", "\\", "|", "?", "*", " "}
           /\ (Len(title) <= 200) =>
                 CountOf("_", name) = CountOf("_", title) + CountOf(" ", title)
           /\ (\A k \in 1..Len(title) :
                  title[k] \in {"<", ">", ":", "\"", "/", "\\", "|", "?", "*", "."}) =>
                 name = <<"story">>

\* a title of 203 characters was cut to 200
C27_Witness ==
    /\ Called("sanitize_filename")
    /\ Len(given.arg) = 203
    /\ Len(results[1]) = 200

\* ------------------------------------------------------------------
\* Properties of the error list (SpecScrape)
\* ------------------------------------------------------------------
HttpFailures == SelectSeq(visited, LAMBDA v : v.fetch = "HTTPError")
HttpEntries == SelectSeq(summary.errors, LAMBDA e : e.type = "HTTPError")

\* C26 as stated: every fetch that failed with an HTTP error status has its
\* entry of type HTTPError in the summary, in order; the entry's code is the
\* status of the response, and the entry of a 401 is flagged as a page that
\* requires authentication.
C26_HttpErrorEntryHasStatus ==
    /\ Len(HttpEntries) = Len(HttpFailures)
    /\ \A k \in 1..Len(HttpEntries) :
          /\ HttpEntries[k].url = HttpFailures[k].url
          /\ HttpEntries[k].code = HttpFailures[k].status
          /\ (HttpFailures[k].status = 401) => HttpEntries[k].reason

\* ------------------------------------------------------------------
\* Properties of the record state machine (SpecUpload)
\* ------------------------------------------------------------------
\* how far the record at hand has come: not loaded (0), loaded and its hero
\* image resolved, the upload running (2), the upload over and the story
\* being created (3), the script ended (4)
Stage ==
    IF pc = "load" THEN 0
    ELSE IF pc \in UploadPcs THEN 2
    ELSE IF pc = "story" THEN 3
    ELSE IF pc \in Ended THEN 4
    ELSE 1

\* C28: while the loop is at one record its stage never goes back, and an
\* uploaded asset stays; a create_story request is pending only in the
\* story stage, which holds no upload request, and during the upload no
\* story request of the record has been made; the record gets its outcome
\* in the step that moves the loop on, one outcome, and never another:
\* created or failed out of the story stage, skipped out of loading.
C28_RecordMovesForwardOnly ==
    /\ [](pc \in UploadPcs =>
            /\ call.op = "create_signed_asset"
            /\ hist = <<>>
            /\ cand = 0
            /\ image_asset = NoAsset)
    /\ []((call.op = "create_story" /\ call.state = "running") => pc = "story")
    /\ [](pc = "story" => call.op = "create_story")
    /\ [](\A j, k \in 1..Len(outcome) : (j # k) => outcome[j].rec # outcome[k].rec)
    /\ [][ (pc \in LoopPcs) =>
            /\ idx' \in {idx, idx + 1}
            /\ (idx' = idx) =>
                  /\ outcome' = outcome
                  /\ pc' \in LoopPcs
                  /\ Stage' >= Stage
                  /\ (pc # "load" /\ image_asset # NoAsset) => image_asset' = image_asset
            /\ (idx' = idx + 1) =>
                  /\ outcome' = Append(outcome, outcome'[Len(outcome')])
                  /\ outcome'[Len(outcome')].rec = idx
                  /\ pc \in {"load", "story"}
                  /\ pc' \in {"load"} \cup Ended
                  /\ (pc = "load") <=> (outcome'[Len(outcome')].res = "skipped")
                  /\ (pc = "story") <=> (outcome'[Len(outcome')].res \in {"created", "failed"})
                  /\ (outcome'[Len(outcome')].res = "created") => call'.state = "returned"
          ]_vars

\* a record whose image upload needed a second try has its asset and its
\* story
C28_Witness ==
    /\ pc \in {"load", "done"}
    /\ outcome # <<>>
    /\ LastOutcome.res = "created"
    /\ image_asset # NoAsset
    /\ imgTry = 2

\* the story entries the CMS holds because of the record at hand
EntriesCreated == taken \ taken0

\* C29 as stated: the requests of one record create at most one story entry
\* in the CMS, also when the answer to a creation that was applied is lost
\* or unreadable and the client tries again or tries the next slug.
C29_AtMostOneEntryPerRecord ==
    Cardinality(EntriesCreated) <= 1

\* ------------------------------------------------------------------
\* Properties of the request budget of a record (SpecUpload)
\* ------------------------------------------------------------------
RECURSIVE AttemptsIn(_)
AttemptsIn(h) == IF h = <<>> THEN 0 ELSE h[1].attempts + AttemptsIn(Tail(h))

\* story creation requests sent for the record so far
StoryRequests ==
    AttemptsIn(hist) + (IF pc = "story" /\ call.state = "running" THEN call.attempt ELSE 0)

\* signed-asset requests the record can have sent so far, at most
SignedSpent ==
    IF pc = "signed" THEN retries * (imgTry - 1) + call.attempt ELSE retries * imgTry

\* raw transfers the record can have made so far, at most
TransfersSpent == IF pc \in UploadPcs THEN imgTry - 1 ELSE imgTry

StoryLeft == (SlugCandidates - cand) * retries + (retries - call.attempt)
StoryMost == SlugCandidates * retries
UploadLeft ==
    (max_retries - imgTry) * (retries + 1) + 1
    + (IF pc = "signed" THEN retries - call.attempt ELSE 0)
UploadMost == max_retries * (retries + 1)
RecordMost == StoryMost + UploadMost + 3

\* steps the loop can still take, at most
Remaining ==
    IF pc \notin LoopPcs THEN 0
    ELSE RecordMost * (Len(json_paths) - idx)
         + (IF pc = "load" THEN StoryMost + UploadMost + 2
            ELSE IF pc \in UploadPcs THEN StoryMost + 1 + UploadLeft
            ELSE StoryLeft)

\* C30: a record has at most 12 story creation requests, each step of the
\* story stage being one of them; every signed-asset request and every raw
\* transfer uses up at least one of a budget of 12 and of 3 that is never
\* refilled during the upload; and every step of the loop brings the run
\* closer to its end by at least one of a finite number of steps.
C30_BoundedRequestsPerRecord ==
    /\ [](StoryRequests <= 12)
    /\ [](pc \in UploadPcs => /\ SignedSpent \in 0..12
                               /\ TransfersSpent \in 0..2
                               /\ (pc = "signed") => call.attempt < retries)
    /\ [](pc = "story" => TransfersSpent \in 0..3)
    /\ [](Remaining \in 0..(RecordMost * Len(json_paths)))
    /\ [][ /\ (pc = "story") => StoryRequests' = StoryRequests + 1
           /\ (pc = "signed") =>
                 /\ pc' \in UploadPcs => SignedSpent' >= SignedSpent + 1
                 /\ TransfersSpent' >= TransfersSpent
           /\ (pc = "transfer") =>
                 /\ pc' \in UploadPcs => SignedSpent' >= SignedSpent
                 /\ TransfersSpent' >= TransfersSpent + 1
           /\ (pc \in LoopPcs) => Remaining' < Remaining
         ]_vars

\* three upload tries of the record failed, and each of its three slug
\* candidates was posted four times
C30_Witness ==
    /\ pc \in Ended
    /\ imgTry = 3
    /\ Len(hist) = 3
    /\ StoryRequests = 12

\* ------------------------------------------------------------------
\* Properties of the image upload (SpecUpload)
\* ------------------------------------------------------------------
\* C31: the raw transfer follows a signed-asset call that returned a
\* descriptor with post_url and fields, and is made once: whatever its
\* outcome the upload leaves it, for the story or for a new signed-asset
\* request. The upload starts over only with a new signed-asset request, as
\* try 2 or 3, and only after a timeout, a connection error or a TLS error;
\* there is no try after the third. A failure of another kind ends the
\* upload in the try it happens in, a failure of these kinds only in the
\* third try.
C31_TransferOncePerDescriptor ==
    [][ /\ (pc = "transfer") => pc' \in {"signed", "story"}
        /\ (pc' = "transfer") =>
              /\ pc = "signed"
              /\ call.state = "running"
              /\ call'.state = "returned"
              /\ {"post_url", "fields"} \subseteq call'.last.body
        /\ (pc \in UploadPcs /\ pc' = "signed" /\ (pc = "transfer" \/ imgTry' # imgTry)) =>
              /\ imgTry' = imgTry + 1
              /\ imgTry' <= 3
              /\ call' = NewCall("create_signed_asset")
              /\ last_err' \in {"Timeout", "ConnectionError", "SSLError"}
        /\ (pc \in UploadPcs /\ pc' \in UploadPcs /\ imgTry' = imgTry) =>
              last_err' = last_err
        /\ (pc \in UploadPcs /\ pc' = "story") =>
              /\ imgTry' = imgTry
              /\ last_err' \in {"none", "HTTPError", "RuntimeError", "Timeout",
                                "ConnectionError", "SSLError"}
              /\ (last_err' \in {"Timeout", "ConnectionError", "SSLError"}) => imgTry = 3
      ]_vars

\* the third transfer of a record, after a failed signed-asset call and a
\* transfer that ended in a TLS error
C31_Witness ==
    /\ pc = "transfer"
    /\ imgTry = 3
    /\ last_err = "SSLError"

\* ------------------------------------------------------------------
\* Properties of one story (SpecStory)
\* ------------------------------------------------------------------
\* C32: a story request has the image field exactly when it carries an
\* asset object, and then the record's hero image is a local file, the
\* object is the public URL of the descriptor's key with fieldtype asset,
\* and it has an id only in a space whose POST /assets answers carry one;
\* the object enters the story request in the step that follows a transfer
\* that did not fail, for a signed-asset call that returned post_url, fields
\* and key, with the id exactly when that answer had one; every later
\* candidate and retry of the record carries the same object.
C32_ImageOnlyAfterUpload ==
    /\ [](call.op = "create_story" =>
            /\ ("image" \in call.req.fields) <=> (call.req.image # NoAsset)
            /\ (call.req.image # NoAsset) =>
                  /\ json_paths[1].hero = "local"
                  /\ call.req.image.filename = <<"https://a.storyblok.com/", "key">>
                  /\ call.req.image.fieldtype = "asset"
                  /\ call.req.image.id \in {0, 7}
                  /\ (call.req.image.id # 0) => assetIds)
    /\ [][ (pc' = "story" /\ call'.req.image # NoAsset) =>
              \/ pc = "story" /\ call'.req.image = call.req.image
              \/ /\ pc = "transfer"
                 /\ call.op = "create_signed_asset"
                 /\ call.state = "returned"
                 /\ {"post_url", "fields", "key"} \subseteq call.last.body
                 /\ (call'.req.image.id # 0) <=> ("id" \in call.last.body)
                 /\ last_err' = "none"
          ]_vars

\* the second slug candidate of a story is posted with the asset object and
\* its id
C32_Witness ==
    /\ pc = "story"
    /\ cand = 2
    /\ call.attempt >= 1
    /\ "image" \in call.req.fields
    /\ call.req.image.id = 7

\* C38: every create_story request, for every slug candidate and every
\* attempt, has publish=1 among its parameters exactly when --publish was
\* given.
C38_PublishIffRequested ==
    (call.op = "create_story") => (call.req.publish <=> publish)

\* with --publish, the last attempt of the third slug candidate asks for
\* publication
C38_Witness ==
    /\ publish
    /\ pc = "story"
    /\ cand = 3
    /\ call.attempt = 3
    /\ call.req.publish

\* without --publish a story is created as a draft
C38_DraftWitness ==
    /\ ~publish
    /\ pc = "done"
    /\ outcome # <<>>
    /\ LastOutcome.res = "created"
    /\ ~call.req.publish

\* ------------------------------------------------------------------
\* Properties of the image extension (SpecHelpers)
\* ------------------------------------------------------------------
\* the extension a Content-Type implies, "" when it names no image type
TypeExt(ct) ==
    IF Contains(ct, "png") THEN ".png"
    ELSE IF Contains(ct, "jpeg") \/ Contains(ct, "jpg") THEN ".jpg"
    ELSE IF Contains(ct, "gif") THEN ".gif"
    ELSE IF Contains(ct, "webp") THEN ".webp"
    ELSE ""

\* the positions of the URL that hold a known extension, in any case
ExtPositions(u) ==
    {k \in 1..Len(u) : LowerSym(u[k]) \in {".png", ".jpg", ".jpeg", ".gif", ".webp"}}

\* C33 as stated: the extension is the one the Content-Type implies when it
\* names an image type, whatever the URL holds; else the first known
\* extension in the URL; else .jpg.
C33_ContentTypeBeforeUrl ==
    Called("download_image") =>
        LET ct == given.arg.ct
            u == given.arg.url
        IN /\ (TypeExt(ct) # "") => results[1] = TypeExt(ct)
           /\ (TypeExt(ct) = "" /\ ExtPositions(u) # {}) =>
                 results[1] = LowerSym(u[Min(ExtPositions(u))])
           /\ (TypeExt(ct) = "" /\ ExtPositions(u) = {}) => results[1] = ".jpg"

\* ------------------------------------------------------------------
\* Properties of the description field (SpecHelpers)
\* ------------------------------------------------------------------
\* C35: with description and body_text trimmed, the field is the
\* description, two line ends and the body when neither is empty, the
\* description when the body is empty and the body when the description is
\* empty; it has no line end at its start or at its end.
C35_DescriptionThenBody ==
    Called("final_desc") =>
        LET d == strip(given.arg.description, {" ", "nbsp", "\n"})
            b == strip(given.arg.body_text, {" ", "nbsp", "\n"})
            out == results[1]
        IN /\ (d # <<>> /\ b # <<>>) => out = d \o <<"\n", "\n">> \o b
           /\ (b = <<>>) => out = d
           /\ (d = <<>>) => out = b
           /\ (out # <<>>) => (out[1] # "\n" /\ out[Len(out)] # "\n")

\* a record without description and with a body: the field is the body
C35_Witness ==
    /\ Called("final_desc")
    /\ script = "run"
    /\ given.arg = Fields(<<" ">>, <<"d", "\n">>)
    /\ results = << <<"d">> >>

\* ------------------------------------------------------------------
\* Properties of the body text (SpecHelpers)
\* ------------------------------------------------------------------
\* C36 as stated: for every document the elements extract_body_text
\* searches are the elements extract_hero_image searches.
C36_SameContainer ==
    Called("content_containers") => results[1].body = results[1].hero

\* the elements of a forest in document order, each with its text and with
\* whether one of its ancestors is a p
RECURSIVE Placed(_, _)
Placed(nodes, underP) ==
    IF nodes = <<>> THEN <<>>
    ELSE << [tag |-> nodes[1].tag,
             text |-> safe_text(GetText(nodes[1])),
             underP |-> underP] >>
         \o Placed(nodes[1].children, underP \/ nodes[1].tag = "p")
         \o Placed(Tail(nodes), underP)

\* the forest of the content container: the children of the first
\* ContentMain div, else of the first MainContentZone div, else the document
Container(doc) ==
    LET main == FirstDiv(doc, {"ContentMain"}, FALSE)
        zone == FirstDiv(doc, {"MainContentZone"}, FALSE)
    IN IF main.el # NoElement THEN [forest |-> main.el.children, underP |-> main.inP]
       ELSE IF zone.el # NoElement THEN [forest |-> zone.el.children, underP |-> zone.inP]
       ELSE [forest |-> doc, underP |-> FALSE]

\* the texts of a paragraph list, without the separators
RECURSIVE Split(_)
Split(text) ==
    LET ends == {k \in 1..(Len(text) - 1) : text[k] = "\n" /\ text[k + 1] = "\n"} IN
    IF text = <<>> THEN <<>>
    ELSE IF ends = {} THEN <<text>>
    ELSE <<SubSeq(text, 1, Min(ends) - 1)>> \o Split(SubSeq(text, Min(ends) + 2, Len(text)))

\* C37 as stated: the paragraphs of the body text are, in document order,
\* the normalized texts of at least 3 characters of the p elements of the
\* content container and of its em elements that have no p ancestor.
C37_BodyBlocks ==
    Called("extract_body_text") =>
        LET all == Placed(Container(given.arg).forest, Container(given.arg).underP)
            kept == SelectSeq(all, LAMBDA b :
                        /\ b.tag = "p" \/ (b.tag = "em" /\ ~b.underP)
                        /\ Len(b.text) >= 3)
        IN Split(results[1]) = [k \in 1..Len(kept) |-> kept[k].text]

\* ------------------------------------------------------------------
\* Properties of the hero image lookup (SpecHelpers)
\* ------------------------------------------------------------------
\* C34: the hero path of a record with a stored path is that path under the
\* JSON's directory when that file exists, else under the parent of that
\* directory when that file exists, else the stored value; a stored URL is
\* kept; when the result names no existing file (as given or under the
\* script's directory) the record's first request is the story creation,
\* without an image field, and no signed-asset request.
C34_HeroPathPrecedence ==
    Called("first_request") =>
        LET files == given.arg.files
            stored == given.arg.hero
            beside == [stored.path EXCEPT !.dir = given.arg.jp.dir \o @]
            above == [stored.path EXCEPT
                         !.dir = SubSeq(given.arg.jp.dir, 1, Len(given.arg.jp.dir) - 1) \o @]
            got == results[1].hero_path
            exists == \/ got.path \in files
                      \/ [got.path EXCEPT !.dir = <<"src">> \o @] \in files
        IN /\ (stored.kind = "local" /\ beside \in files) => got.path = beside
           /\ (stored.kind = "local" /\ beside \notin files /\ above \in files) =>
                 got.path = above
           /\ (stored.kind = "local" /\ beside \notin files /\ above \notin files) =>
                 got.path = stored.path
           /\ (stored.kind = "remote") => got.kind = "remote"
           /\ (stored.kind = "none" \/ got.kind = "remote" \/ ~exists) =>
                 /\ results[1].op = "create_story"
                 /\ "image" \notin results[1].fields

\* the image is under the JSON's directory and under its parent: the first
\* is taken, and uploaded
C34_Witness ==
    /\ Called("first_request")
    /\ given.arg.hero = StoredHero
    /\ {Resolve(OutputDir, StoredHero.path), Resolve(RunRoot, StoredHero.path)}
          \subseteq given.arg.files
    /\ results[1].hero_path.path = Resolve(OutputDir, StoredHero.path)
    /\ results[1].op = "create_signed_asset"

====
